---- MODULE Spec2Model ----
(***************************************************************************)
(* Model of the Evernote node: the ENML codec and resource builder of      *)
(* nodes/Evernote/utils.ts and the per-item create/update handlers of      *)
(* Evernote.execute in nodes/Evernote/Evernote.node.ts.                    *)
(*                                                                         *)
(* Text is a sequence of one-character strings, so that escaping, regular  *)
(* expression matching and wrapping act on characters as the code does.    *)
(***************************************************************************)
EXTENDS Integers, Sequences, FiniteSets, TLC

VARIABLES
    batch,          \* items handed to execute(): parameters and binary data per item
    continueOnFail, \* this.continueOnFail()
    noteStore,      \* the note held by the storage service: [title, content, tagNames]
    itemIndex,      \* loop variable of execute(), 1-based
    pc,             \* position inside the current iteration
    frame,          \* locals of the current iteration
    calls,          \* remote calls issued so far, in order
    returnData,     \* output entries pushed so far
    outcome         \* "running", "returned" or "thrown"

vars == <<batch, continueOnFail, noteStore, itemIndex, pc, frame, calls,
          returnData, outcome>>

-----------------------------------------------------------------------------
(* Characters and text helpers                                             *)

Min(S) == CHOOSE x \in S : \A y \in S : x <= y

Max(S) == CHOOSE x \in S : \A y \in S : x >= y

LowerLetters == <<"a","b","c","d","e","f","g","h","i","j","k","l","m",
                  "n","o","p","q","r","s","t","u","v","w","x","y","z">>

UpperLetters == <<"A","B","C","D","E","F","G","H","I","J","K","L","M",
                  "N","O","P","Q","R","S","T","U","V","W","X","Y","Z">>

\* Canonicalize of the /i flag: a letter is compared by its upper-case form.
Canonicalize(c) ==
    IF \E k \in 1..26 : LowerLetters[k] = c
    THEN UpperLetters[CHOOSE k \in 1..26 : LowerLetters[k] = c]
    ELSE c

Digits == {"0","1","2","3","4","5","6","7","8","9"}

\* s starts at position i with the literal lit, compared exactly.
HasAt(s, i, lit) ==
    /\ i >= 1
    /\ i + Len(lit) - 1 <= Len(s)
    /\ \A k \in 1..Len(lit) : s[i + k - 1] = lit[k]

\* s starts at position i with the literal lit, compared under the /i flag.
HasAtI(s, i, lit) ==
    /\ i >= 1
    /\ i + Len(lit) - 1 <= Len(s)
    /\ \A k \in 1..Len(lit) : Canonicalize(s[i + k - 1]) = Canonicalize(lit[k])

\* s.slice(from - 1, to): characters from..to, empty when from > to.
Slice(s, from, to) == IF from > to THEN <<>> ELSE SubSeq(s, from, to)

RECURSIVE Flatten(_)
\* parts.join('')
Flatten(parts) ==
    IF parts = <<>> THEN <<>> ELSE Head(parts) \o Flatten(Tail(parts))

RECURSIVE ReplaceChar(_, _, _)
\* value.replace(/c/g, rep) for a single character c.
ReplaceChar(s, c, rep) ==
    IF s = <<>> THEN <<>>
    ELSE (IF Head(s) = c THEN rep ELSE <<Head(s)>>) \o ReplaceChar(Tail(s), c, rep)

-----------------------------------------------------------------------------
(* utils.ts: the ENML codec                                                *)

xmlProlog == <<"<","?","x","m","l"," ","v","e","r","s","i","o","n","=","\"","1",".","0","\"",
               " ","e","n","c","o","d","i","n","g","=","\"","U","T","F","-","8","\"","?",">","\n">>

enmlDocType == <<"<","!","D","O","C","T","Y","P","E"," ","e","n","-","n","o","t","e"," ",
                 "S","Y","S","T","E","M"," ","\"","h","t","t","p",":","/","/","x","m","l",".",
                 "e","v","e","r","n","o","t","e",".","c","o","m","/","p","u","b","/",
                 "e","n","m","l","2",".","d","t","d","\"",">">>

rootOpenTag == <<"<","e","n","-","n","o","t","e",">">>

rootOpenStart == <<"<","e","n","-","n","o","t","e">>

rootCloseTag == <<"<","/","e","n","-","n","o","t","e",">">>

\* An escape that takes the ampersand last, after the entities are in place.
escapeXml_AmpersandLast(value) ==
    ReplaceChar(
        ReplaceChar(
            ReplaceChar(
                ReplaceChar(value, "<", <<"&","l","t",";">>),
                ">", <<"&","g","t",";">>),
            "\"", <<"&","q","u","o","t",";">>),
        "&", <<"&","a","m","p",";">>)

\* value.replace(/&/g,'&amp;').replace(/</g,'&lt;').replace(/>/g,'&gt;').replace(/"/g,'&quot;')
escapeXml(value) ==
    ReplaceChar(
        ReplaceChar(
            ReplaceChar(
                ReplaceChar(value, "&", <<"&","a","m","p",";">>),
                "<", <<"&","l","t",";">>),
            ">", <<"&","g","t",";">>),
        "\"", <<"&","q","u","o","t",";">>)

wrapEnmlBody(body) == xmlProlog \o enmlDocType \o rootOpenTag \o body \o rootCloseTag

\* The match of /<en-note[^>]*>([\s\S]*?)<\/en-note>/i that starts at i:
\* [first, last] are the bounds of the capture group, ok tells whether it matches.
RootMatchAt(enml, i) ==
    IF ~HasAtI(enml, i, rootOpenStart) THEN [ok |-> FALSE, first |-> 0, last |-> 0]
    ELSE LET gts == {j \in (i + Len(rootOpenStart))..Len(enml) : enml[j] = ">"}
         IN IF gts = {} THEN [ok |-> FALSE, first |-> 0, last |-> 0]
            ELSE LET gt == Min(gts)
                     closes == {k \in (gt + 1)..Len(enml) : HasAtI(enml, k, rootCloseTag)}
                 IN IF closes = {} THEN [ok |-> FALSE, first |-> 0, last |-> 0]
                    ELSE [ok |-> TRUE, first |-> gt + 1, last |-> Min(closes) - 1]

extractEnmlBody(enml) ==
    LET starts == {i \in 1..Len(enml) : enml[i] = "<" /\ RootMatchAt(enml, i).ok}
    IN IF starts = {} THEN <<>>
       ELSE LET m == RootMatchAt(enml, Min(starts))
            IN Slice(enml, m.first, m.last)

RECURSIVE ReplaceLineBreaks(_)
\* escaped.replace(/\r?\n/g, '<br />')
ReplaceLineBreaks(s) ==
    IF s = <<>> THEN <<>>
    ELSE IF Head(s) = "\n" THEN <<"<","b","r"," ","/",">">> \o ReplaceLineBreaks(Tail(s))
    ELSE IF Head(s) = "\r" /\ Len(s) >= 2 /\ s[2] = "\n"
         THEN <<"<","b","r"," ","/",">">> \o ReplaceLineBreaks(Tail(Tail(s)))
    ELSE <<Head(s)>> \o ReplaceLineBreaks(Tail(s))

plainTextToEnml(text) ==
    LET escaped == ReplaceLineBreaks(escapeXml(text))
        body == <<"<","d","i","v",">">> \o escaped \o <<"<","/","d","i","v",">">>
    IN wrapEnmlBody(body)

-----------------------------------------------------------------------------
(* utils.ts: the sanitization policy handed to sanitize-html               *)

allowedTags == {
    <<"e","n","-","n","o","t","e">>, <<"e","n","-","m","e","d","i","a">>, <<"a">>,
    <<"b">>, <<"s","t","r","o","n","g">>, <<"i">>, <<"e","m">>, <<"u">>, <<"s">>,
    <<"s","t","r","i","k","e">>, <<"s","u","b">>, <<"s","u","p">>, <<"p">>, <<"b","r">>,
    <<"u","l">>, <<"o","l">>, <<"l","i">>, <<"d","i","v">>, <<"s","p","a","n">>,
    <<"p","r","e">>, <<"c","o","d","e">>, <<"t","a","b","l","e">>,
    <<"t","h","e","a","d">>, <<"t","b","o","d","y">>, <<"t","r">>, <<"t","h">>,
    <<"t","d">>, <<"h","1">>, <<"h","2">>, <<"h","3">>, <<"h","4">>, <<"h","5">>,
    <<"h","6">> }

selfClosing == { <<"b","r">>, <<"h","r">>, <<"i","m","g">>,
                 <<"e","n","-","m","e","d","i","a">> }

\* Tags whose text is dropped with them when they are not allowed (the
\* sanitizer's default, which sanitizerOptions leaves as it is).
nonTextTags == { <<"s","c","r","i","p","t">>, <<"s","t","y","l","e">>,
                 <<"t","e","x","t","a","r","e","a">>, <<"o","p","t","i","o","n">> }

\* The markup inside "<" ... ">" read as a tag: closing (leading "/"),
\* self-closed (trailing "/"), and its name (up to the first blank or "/").
\* The parser runs in xmlMode, so the name keeps its letter case.
ParseTag(inner) ==
    LET closing == Len(inner) >= 1 /\ inner[1] = "/"
        rest == IF closing THEN Tail(inner) ELSE inner
        selfClosed == ~closing /\ Len(rest) >= 1 /\ rest[Len(rest)] = "/"
        stops == {k \in 1..Len(rest) : rest[k] \in {" ", "/", "\n", "\t"}}
        nameEnd == IF stops = {} THEN Len(rest) ELSE Min(stops) - 1
    IN [closing |-> closing, selfClosed |-> selfClosed, name |-> Slice(rest, 1, nameEnd)]

\* Position of the ">" that ends the markup opened by the "<" at i, 0 if none.
TagEnd(html, i) ==
    LET gts == {j \in (i + 1)..Len(html) : html[j] = ">"}
    IN IF gts = {} THEN 0 ELSE Min(gts)

\* A "<" opens markup when a name, "/", "!" or "?" follows it; otherwise it is text.
IsMarkupStart(html, i) ==
    /\ html[i] = "<"
    /\ i < Len(html)
    /\ html[i + 1] \notin {" ", "\n", "\t", "<", ">", "=", "&"} \cup Digits
    /\ TagEnd(html, i) # 0

\* onopentag: an allowed tag is written out (self-closed when the policy says so),
\* any other tag is discarded.
OpenTagText(name) ==
    IF name \notin allowedTags THEN <<>>
    ELSE <<"<">> \o name \o (IF name \in selfClosing THEN <<" ","/",">">> ELSE <<">">>)

\* onclosetag: the end tag of an allowed tag that is not self-closed.
CloseTagText(name) ==
    IF name \notin allowedTags \/ name \in selfClosing THEN <<>>
    ELSE <<"<","/">> \o name \o <<">">>

RECURSIVE CloseAll(_)
\* The parser's end: every element still open is closed, innermost first.
CloseAll(stack) ==
    IF stack = <<>> THEN <<>> ELSE CloseTagText(Head(stack)) \o CloseAll(Tail(stack))

\* The text while some open element is a discarded non-text tag is dropped.
SkipsText(stack) ==
    \E k \in 1..Len(stack) : stack[k] \in nonTextTags /\ stack[k] \notin allowedTags

\* ontext for one character: entities are decoded by the parser and the text is
\* escaped again (escapeHtml without quotes); returns the text and characters used.
TextAt(html, i) ==
    IF HasAt(html, i, <<"&","a","m","p",";">>) THEN [out |-> <<"&","a","m","p",";">>, used |-> 5]
    ELSE IF HasAt(html, i, <<"&","l","t",";">>) THEN [out |-> <<"&","l","t",";">>, used |-> 4]
    ELSE IF HasAt(html, i, <<"&","g","t",";">>) THEN [out |-> <<"&","g","t",";">>, used |-> 4]
    ELSE IF HasAt(html, i, <<"&","q","u","o","t",";">>) THEN [out |-> <<"\"">>, used |-> 6]
    ELSE IF html[i] = "&" THEN [out |-> <<"&","a","m","p",";">>, used |-> 1]
    ELSE IF html[i] = "<" THEN [out |-> <<"&","l","t",";">>, used |-> 1]
    ELSE IF html[i] = ">" THEN [out |-> <<"&","g","t",";">>, used |-> 1]
    ELSE [out |-> <<html[i]>>, used |-> 1]

RECURSIVE SanitizeFrom(_, _, _)
\* sanitizeHtml(html, sanitizerOptions) from position i, stack holding the names
\* of the elements open at i, innermost first.
SanitizeFrom(html, i, stack) ==
    IF i > Len(html) THEN CloseAll(stack)
    ELSE IF IsMarkupStart(html, i) THEN
        LET e == TagEnd(html, i)
            tag == ParseTag(Slice(html, i + 1, e - 1))
            opened == {k \in 1..Len(stack) : stack[k] = tag.name}
        IN IF html[i + 1] \in {"!", "?"} THEN SanitizeFrom(html, e + 1, stack)
           ELSE IF tag.closing THEN
               IF opened = {} THEN SanitizeFrom(html, e + 1, stack)
               ELSE LET pos == Min(opened)
                        visible == ~SkipsText(SubSeq(stack, pos + 1, Len(stack)))
                    IN (IF visible THEN CloseAll(SubSeq(stack, 1, pos)) ELSE <<>>)
                       \o SanitizeFrom(html, e + 1, SubSeq(stack, pos + 1, Len(stack)))
           ELSE IF SkipsText(stack) THEN
               SanitizeFrom(html, e + 1, IF tag.selfClosed THEN stack ELSE <<tag.name>> \o stack)
           ELSE IF tag.selfClosed THEN
               OpenTagText(tag.name) \o CloseTagText(tag.name) \o SanitizeFrom(html, e + 1, stack)
           ELSE OpenTagText(tag.name) \o SanitizeFrom(html, e + 1, <<tag.name>> \o stack)
    ELSE LET t == TextAt(html, i)
         IN (IF SkipsText(stack) THEN <<>> ELSE t.out) \o SanitizeFrom(html, i + t.used, stack)

sanitizeHtml(html) == SanitizeFrom(html, 1, <<>>)

sanitizeHtmlToEnml(html) == wrapEnmlBody(sanitizeHtml(html))

-----------------------------------------------------------------------------
(* utils.ts: parseBinaryPropertyNames and buildResourcesFromBinary         *)

RECURSIVE Split(_, _)
\* raw.split(sep) for a one-character separator: always at least one part.
Split(raw, sep) ==
    LET seps == {k \in 1..Len(raw) : raw[k] = sep}
    IN IF seps = {} THEN <<raw>>
       ELSE <<Slice(raw, 1, Min(seps) - 1)>> \o Split(Slice(raw, Min(seps) + 1, Len(raw)), sep)

WhiteSpace == {" ", "\t", "\n", "\r"}

\* name.trim()
Trim(s) ==
    LET solid == {k \in 1..Len(s) : s[k] \notin WhiteSpace}
    IN IF solid = {} THEN <<>> ELSE SubSeq(s, Min(solid), Max(solid))

\* parts.map((name) => name.trim()).filter((name) => name.length > 0)
TrimAndDropEmpty(parts) ==
    LET trimmed == [k \in 1..Len(parts) |-> Trim(parts[k])]
    IN SelectSeq(trimmed, LAMBDA name : Len(name) > 0)

parseBinaryPropertyNames(raw) == TrimAndDropEmpty(Split(raw, ","))

RECURSIVE ByteSum(_)
ByteSum(buffer) == IF buffer = <<>> THEN 0 ELSE Head(buffer) + ByteSum(Tail(buffer))

RECURSIVE WeightedSum(_)
WeightedSum(buffer) ==
    IF buffer = <<>> THEN 0 ELSE Len(buffer) * Head(buffer) + WeightedSum(Tail(buffer))

\* createHash('md5').update(buffer).digest(): a digest of the bytes. The model
\* keeps two check bytes (a Fletcher sum) in place of MD5's sixteen.
md5(buffer) == <<(ByteSum(buffer) + 1) % 256, WeightedSum(buffer) % 256>>

HexDigits == <<"0","1","2","3","4","5","6","7","8","9","a","b","c","d","e","f">>

RECURSIVE toHex(_)
\* bodyHash.toString('hex'): two lower-case digits per byte.
toHex(bytes) ==
    IF bytes = <<>> THEN <<>>
    ELSE <<HexDigits[(Head(bytes) \div 16) + 1], HexDigits[(Head(bytes) % 16) + 1]>>
         \o toHex(Tail(bytes))

octetStream == <<"a","p","p","l","i","c","a","t","i","o","n","/",
                 "o","c","t","e","t","-","s","t","r","e","a","m">>

\* `<en-media type="${mime}" hash="${hex}" />`
MediaTag(mime, hex) ==
    <<"<","e","n","-","m","e","d","i","a"," ","t","y","p","e","=","\"">> \o mime
    \o <<"\""," ","h","a","s","h","=","\"">> \o hex \o <<"\""," ","/",">">>

\* A builder that hashes the buffer for the resource, and for the reference
\* tag the buffer read again with a line feed at its end.
BuildOne_RehashedTag(binaryData, buffer, propertyName) ==
    LET bodyHash == md5(buffer)
        mime == IF binaryData.mimeType # <<>> THEN binaryData.mimeType ELSE octetStream
        fileName == IF binaryData.fileName # <<>> THEN binaryData.fileName
                    ELSE IF binaryData.file # <<>> THEN binaryData.file
                    ELSE propertyName
    IN [resource |-> [data |-> [body |-> buffer, size |-> Len(buffer), bodyHash |-> bodyHash],
                      mime |-> mime,
                      attributes |-> [fileName |-> fileName]],
        mediaTag |-> MediaTag(mime, toHex(md5(buffer \o <<10>>)))]

\* A builder whose reference tag names the type the item declares, also when
\* it declares none.
BuildOne_TagDeclaredType(binaryData, buffer, propertyName) ==
    LET bodyHash == md5(buffer)
        mime == IF binaryData.mimeType # <<>> THEN binaryData.mimeType ELSE octetStream
        fileName == IF binaryData.fileName # <<>> THEN binaryData.fileName
                    ELSE IF binaryData.file # <<>> THEN binaryData.file
                    ELSE propertyName
    IN [resource |-> [data |-> [body |-> buffer, size |-> Len(buffer), bodyHash |-> bodyHash],
                      mime |-> mime,
                      attributes |-> [fileName |-> fileName]],
        mediaTag |-> MediaTag(binaryData.mimeType, toHex(bodyHash))]

\* One iteration of the loop of buildResourcesFromBinary for a property the item
\* carries: binaryData is the item's entry, buffer what getBinaryDataBuffer gave.
BuildOne(binaryData, buffer, propertyName) ==
    LET bodyHash == md5(buffer)
        mime == IF binaryData.mimeType # <<>> THEN binaryData.mimeType ELSE octetStream
        fileName == IF binaryData.fileName # <<>> THEN binaryData.fileName
                    ELSE IF binaryData.file # <<>> THEN binaryData.file
                    ELSE propertyName
    IN [resource |-> [data |-> [body |-> buffer, size |-> Len(buffer), bodyHash |-> bodyHash],
                      mime |-> mime,
                      attributes |-> [fileName |-> fileName]],
        mediaTag |-> MediaTag(mime, toHex(bodyHash))]

-----------------------------------------------------------------------------
(* Evernote.node.ts, search and replace: the pattern, RegExp and replace   *)
(*                                                                         *)
(* The pattern language modelled is the part of JavaScript's (non-unicode) *)
(* RegExp the model's search values use: literal characters, "\" escapes   *)
(* (\d the digits, any other escaped character itself), ".", the           *)
(* assertions "^" and "$", and the quantifiers "*", "+", "?" (greedy, or    *)
(* lazy with a following "?").  Groups, classes and alternatives are not   *)
(* modelled beyond the errors of an unterminated "(" or "[", an unmatched  *)
(* ")", a quantifier with nothing to repeat and a trailing "\".            *)

RegExpSyntaxChars == {".", "*", "+", "?", "^", "$", "{", "}", "(", ")", "|", "[", "]", "\\"}

RECURSIVE escapeRegExp_DotUnescaped(_)
\* An escape whose character class lacks the dot.
escapeRegExp_DotUnescaped(searchValue) ==
    IF searchValue = <<>> THEN <<>>
    ELSE (IF Head(searchValue) \in RegExpSyntaxChars \ {"."}
          THEN <<"\\", Head(searchValue)>> ELSE <<Head(searchValue)>>)
         \o escapeRegExp_DotUnescaped(Tail(searchValue))

RECURSIVE escapeRegExp_ParenUnescaped(_)
\* An escape whose character class lacks the opening parenthesis.
escapeRegExp_ParenUnescaped(searchValue) ==
    IF searchValue = <<>> THEN <<>>
    ELSE (IF Head(searchValue) \in RegExpSyntaxChars \ {"("}
          THEN <<"\\", Head(searchValue)>> ELSE <<Head(searchValue)>>)
         \o escapeRegExp_ParenUnescaped(Tail(searchValue))

RECURSIVE escapeRegExp(_)
\* searchValue.replace(/[.*+?^${}()|[\]\\]/g, '\\$&')
escapeRegExp(searchValue) ==
    IF searchValue = <<>> THEN <<>>
    ELSE (IF Head(searchValue) \in RegExpSyntaxChars
          THEN <<"\\", Head(searchValue)>> ELSE <<Head(searchValue)>>)
         \o escapeRegExp(Tail(searchValue))

\* let pattern = searchValue; if (!useRegex) pattern = <escaped searchValue>
SearchPattern(searchValue, useRegex) ==
    IF useRegex THEN searchValue ELSE escapeRegExp(searchValue)

\* Flags that are global only together with the case-insensitive flag.
RegExpFlags_FirstOnly(caseSensitive) == IF caseSensitive THEN {} ELSE {"g", "i"}

\* caseSensitive ? 'g' : 'gi'
RegExpFlags(caseSensitive) == IF caseSensitive THEN {"g"} ELSE {"g", "i"}

Quantifiers == {"*", "+", "?"}

\* The atom that starts at pattern[i]: its node and the position after it.
\* kind "error" is a SyntaxError of the RegExp constructor.
AtomAt(pattern, i) ==
    LET c == pattern[i]
    IN IF c = "\\" THEN
           IF i = Len(pattern) THEN [kind |-> "error", ch |-> c, next |-> i + 1]
           ELSE IF pattern[i + 1] = "d" THEN [kind |-> "digit", ch |-> "d", next |-> i + 2]
           ELSE [kind |-> "char", ch |-> pattern[i + 1], next |-> i + 2]
       ELSE IF c = "." THEN [kind |-> "any", ch |-> c, next |-> i + 1]
       ELSE IF c = "^" THEN [kind |-> "start", ch |-> c, next |-> i + 1]
       ELSE IF c = "$" THEN [kind |-> "end", ch |-> c, next |-> i + 1]
       ELSE IF c \in Quantifiers \cup {"(", ")"} THEN [kind |-> "error", ch |-> c, next |-> i + 1]
       ELSE IF c = "[" /\ \A k \in (i + 1)..Len(pattern) : pattern[k] # "]"
            THEN [kind |-> "error", ch |-> c, next |-> i + 1]
       ELSE [kind |-> "char", ch |-> c, next |-> i + 1]

RECURSIVE CompileFrom(_, _)
\* The nodes of pattern[i..], or <<[kind |-> "error"]>> somewhere in them.
CompileFrom(pattern, i) ==
    IF i > Len(pattern) THEN <<>>
    ELSE LET a == AtomAt(pattern, i)
             quantified == a.next <= Len(pattern) /\ pattern[a.next] \in Quantifiers
             lazy == quantified /\ a.next + 1 <= Len(pattern) /\ pattern[a.next + 1] = "?"
             after == IF lazy THEN a.next + 2 ELSE IF quantified THEN a.next + 1 ELSE a.next
             node == [kind |-> IF quantified /\ a.kind \in {"start", "end"} THEN "error" ELSE a.kind,
                      ch |-> a.ch,
                      quant |-> IF quantified THEN pattern[a.next] ELSE "1",
                      lazy |-> lazy]
         IN <<node>> \o CompileFrom(pattern, after)

\* new RegExp(pattern, flags): ok is FALSE when the constructor throws.
NewRegExp(pattern, flags) ==
    LET nodes == CompileFrom(pattern, 1)
    IN [ok |-> \A k \in 1..Len(nodes) : nodes[k].kind # "error",
        nodes |-> nodes,
        global |-> "g" \in flags,
        ignoreCase |-> "i" \in flags]

\* Whether the character c is matched by a character node.
NodeMatches(node, c, ignoreCase) ==
    CASE node.kind = "char" -> IF ignoreCase THEN Canonicalize(c) = Canonicalize(node.ch)
                                ELSE c = node.ch
      [] node.kind = "any" -> c \notin {"\n", "\r"}
      [] node.kind = "digit" -> c \in Digits
      [] OTHER -> FALSE

\* Length of the longest run of characters from pos on that node matches.
RunLength(node, s, pos, ignoreCase) ==
    LET stops == {k \in pos..Len(s) : ~NodeMatches(node, s[k], ignoreCase)}
    IN IF stops = {} THEN Len(s) + 1 - pos ELSE Min(stops) - pos

RECURSIVE MatchFrom(_, _, _, _, _)
\* The backtracking matcher: the position after the match of nodes[k..] at pos,
\* or -1 when there is none; a quantifier tries its repetition counts in the
\* order of its greed.
MatchFrom(nodes, k, s, pos, ignoreCase) ==
    IF k > Len(nodes) THEN pos
    ELSE LET node == nodes[k]
         IN IF node.kind = "start" THEN
                IF pos = 1 THEN MatchFrom(nodes, k + 1, s, pos, ignoreCase) ELSE -1
            ELSE IF node.kind = "end" THEN
                IF pos = Len(s) + 1 THEN MatchFrom(nodes, k + 1, s, pos, ignoreCase) ELSE -1
            ELSE LET run == RunLength(node, s, pos, ignoreCase)
                     least == IF node.quant \in {"*", "?"} THEN 0 ELSE 1
                     most == IF node.quant \in {"1", "?"} /\ run > 1 THEN 1 ELSE run
                     good == {n \in least..most :
                                MatchFrom(nodes, k + 1, s, pos + n, ignoreCase) # -1}
                 IN IF good = {} THEN -1
                    ELSE MatchFrom(nodes, k + 1, s,
                                   pos + (IF node.lazy THEN Min(good) ELSE Max(good)),
                                   ignoreCase)

RECURSIVE FindMatches(_, _, _)
\* The matches RegExp.prototype[Symbol.replace] collects from lastIndex on:
\* <<first, after>> pairs, left to right; after an empty match lastIndex
\* advances by one; without the g flag only the first match is taken.
FindMatches(regex, s, lastIndex) ==
    LET starts == {i \in lastIndex..(Len(s) + 1) :
                     MatchFrom(regex.nodes, 1, s, i, regex.ignoreCase) # -1}
    IN IF starts = {} THEN <<>>
       ELSE LET first == Min(starts)
                after == MatchFrom(regex.nodes, 1, s, first, regex.ignoreCase)
            IN <<<<first, after>>>> \o
               (IF regex.global
                THEN FindMatches(regex, s, IF after = first THEN first + 1 ELSE after)
                ELSE <<>>)

RECURSIVE GetSubstitution(_, _, _, _)
\* GetSubstitution for a pattern without capture groups: "$$" is "$", "$&" the
\* match, "$'" the text after it; any other "$" stays (the replacement values
\* of the model hold no backquote, the one further form).
GetSubstitution(s, first, after, template) ==
    IF template = <<>> THEN <<>>
    ELSE IF Head(template) = "$" /\ Len(template) >= 2 /\ template[2] \in {"$", "&", "'"}
         THEN (CASE template[2] = "$" -> <<"$">>
                 [] template[2] = "&" -> Slice(s, first, after - 1)
                 [] template[2] = "'" -> Slice(s, after, Len(s)))
              \o GetSubstitution(s, first, after, Tail(Tail(template)))
    ELSE <<Head(template)>> \o GetSubstitution(s, first, after, Tail(template))

RECURSIVE Splice(_, _, _, _, _)
\* The result string: the text between the matches and a substitution per match.
Splice(s, matches, k, nextSourcePosition, replaceValue) ==
    IF k > Len(matches) THEN Slice(s, nextSourcePosition, Len(s))
    ELSE Slice(s, nextSourcePosition, matches[k][1] - 1)
         \o GetSubstitution(s, matches[k][1], matches[k][2], replaceValue)
         \o Splice(s, matches, k + 1, matches[k][2], replaceValue)

\* existingBody.replace(regex, replaceValue)
StringReplace(s, regex, replaceValue) ==
    Splice(s, FindMatches(regex, s, 1), 1, 1, replaceValue)

-----------------------------------------------------------------------------
(* Evernote.node.ts, note attributes: JSON.parse and Object.assign         *)
(*                                                                         *)
(* The JSON texts read are objects whose values are strings, strings, and  *)
(* the literals of numbers, true, false and null; arrays and nested values *)
(* are outside the texts of the model.  An object is a function from its   *)
(* keys to its values.                                                     *)

JsonWhiteSpace == {" ", "\n", "\r", "\t"}

RECURSIVE SkipWhiteSpace(_, _)
\* The first position from i on that holds no white space.
SkipWhiteSpace(text, i) ==
    IF i <= Len(text) /\ text[i] \in JsonWhiteSpace THEN SkipWhiteSpace(text, i + 1) ELSE i

RECURSIVE StringCharsFrom(_, _, _)
\* The characters of a JSON string whose opening quote lies before position i:
\* next is the position after the closing quote; ok is FALSE for a string that
\* does not end, holds a control character or an escape JSON does not know.
StringCharsFrom(text, i, acc) ==
    IF i > Len(text) \/ text[i] \in {"\n", "\r", "\t"}
    THEN [ok |-> FALSE, value |-> acc, next |-> i]
    ELSE IF text[i] = "\"" THEN [ok |-> TRUE, value |-> acc, next |-> i + 1]
    ELSE IF text[i] = "\\"
         THEN IF i < Len(text) /\ text[i + 1] \in {"\"", "\\", "/"}
              THEN StringCharsFrom(text, i + 2, Append(acc, text[i + 1]))
              ELSE IF i < Len(text) /\ text[i + 1] = "n"
              THEN StringCharsFrom(text, i + 2, Append(acc, "\n"))
              ELSE [ok |-> FALSE, value |-> acc, next |-> i]
    ELSE StringCharsFrom(text, i + 1, Append(acc, text[i]))

\* The JSON string that starts at position i.
StringAt(text, i) ==
    IF i <= Len(text) /\ text[i] = "\"" THEN StringCharsFrom(text, i + 1, <<>>)
    ELSE [ok |-> FALSE, value |-> <<>>, next |-> i]

NoProps == [k \in {} |-> <<>>]

RECURSIVE MembersFrom(_, _, _)
\* The members of an object from position i on, where a key is due; a key
\* that comes twice keeps its last value.
MembersFrom(text, i, acc) ==
    LET key == StringAt(text, i)
        colon == SkipWhiteSpace(text, key.next)
        value == StringAt(text, SkipWhiteSpace(text, colon + 1))
        after == SkipWhiteSpace(text, value.next)
        props == (key.value :> value.value) @@ acc
    IN IF ~key.ok \/ colon > Len(text) \/ text[colon] # ":" \/ ~value.ok \/ after > Len(text)
       THEN [ok |-> FALSE, props |-> acc, next |-> i]
       ELSE IF text[after] = "}" THEN [ok |-> TRUE, props |-> props, next |-> after + 1]
       ELSE IF text[after] = "," THEN MembersFrom(text, SkipWhiteSpace(text, after + 1), props)
       ELSE [ok |-> FALSE, props |-> acc, next |-> i]

JsonLiterals == { <<"t","r","u","e">>, <<"f","a","l","s","e">>, <<"n","u","l","l">> }

\* The value that starts at position i: props are the own enumerable
\* properties Object.assign copies from it (those of a string are its
\* characters under their indices, a number, boolean or null has none).
ValueAt(text, i) ==
    IF i > Len(text) THEN [ok |-> FALSE, props |-> NoProps, next |-> i]
    ELSE IF text[i] = "{"
         THEN LET first == SkipWhiteSpace(text, i + 1)
              IN IF first <= Len(text) /\ text[first] = "}"
                 THEN [ok |-> TRUE, props |-> NoProps, next |-> first + 1]
                 ELSE MembersFrom(text, first, NoProps)
    ELSE IF text[i] = "\""
         THEN LET str == StringAt(text, i)
              IN [ok |-> str.ok,
                  props |-> [k \in {<<HexDigits[n]>> : n \in 1..Min({Len(str.value), 10})}
                               |-> <<str.value[CHOOSE n \in 1..10 : <<HexDigits[n]>> = k]>>],
                  next |-> str.next]
    ELSE IF \E lit \in JsonLiterals : HasAt(text, i, lit)
         THEN [ok |-> TRUE, props |-> NoProps,
               next |-> i + Len(CHOOSE lit \in JsonLiterals : HasAt(text, i, lit))]
    ELSE IF text[i] = "0" THEN [ok |-> TRUE, props |-> NoProps, next |-> i + 1]
    ELSE IF text[i] \in Digits
         THEN [ok |-> TRUE, props |-> NoProps,
               next |-> Min({j \in (i + 1)..(Len(text) + 1) :
                               j > Len(text) \/ text[j] \notin Digits})]
    ELSE [ok |-> FALSE, props |-> NoProps, next |-> i]

\* JSON.parse(text): ok is FALSE when it throws a SyntaxError.
JSONParse(text) ==
    LET value == ValueAt(text, SkipWhiteSpace(text, 1))
    IN [ok |-> value.ok /\ SkipWhiteSpace(text, value.next) > Len(text),
        props |-> value.props]

\* Object.assign(target, source)
ObjectAssign(target, source) == source @@ target

\* The fields of the NoteAttributes structure of the service.
NoteAttributeFields == {
    <<"s","u","b","j","e","c","t","D","a","t","e">>,
    <<"l","a","t","i","t","u","d","e">>,
    <<"l","o","n","g","i","t","u","d","e">>,
    <<"a","l","t","i","t","u","d","e">>,
    <<"a","u","t","h","o","r">>,
    <<"s","o","u","r","c","e">>,
    <<"s","o","u","r","c","e","U","R","L">>,
    <<"s","o","u","r","c","e","A","p","p","l","i","c","a","t","i","o","n">>,
    <<"s","h","a","r","e","D","a","t","e">>,
    <<"r","e","m","i","n","d","e","r","O","r","d","e","r">>,
    <<"r","e","m","i","n","d","e","r","D","o","n","e","T","i","m","e">>,
    <<"r","e","m","i","n","d","e","r","T","i","m","e">>,
    <<"p","l","a","c","e","N","a","m","e">>,
    <<"c","o","n","t","e","n","t","C","l","a","s","s">>,
    <<"a","p","p","l","i","c","a","t","i","o","n","D","a","t","a">>,
    <<"l","a","s","t","E","d","i","t","e","d","B","y">>,
    <<"c","l","a","s","s","i","f","i","c","a","t","i","o","n","s">>,
    <<"c","r","e","a","t","o","r","I","d">>,
    <<"l","a","s","t","E","d","i","t","o","r","I","d">>,
    <<"s","h","a","r","e","d","W","i","t","h","B","u","s","i","n","e","s","s">>,
    <<"c","o","n","f","l","i","c","t","S","o","u","r","c","e","N","o","t","e","G","u","i","d">>,
    <<"n","o","t","e","T","i","t","l","e","Q","u","a","l","i","t","y">> }

\* new EvernoteSDK.Types.NoteAttributes(attributesObj): the structure holds its
\* own fields and no other key of the object.
NoteAttributes(attributesObj) ==
    [key \in DOMAIN attributesObj \cap NoteAttributeFields |-> attributesObj[key]]

\* The merge that lets the JSON object win over the structured fields.
MergeAttributes_JsonOnTop(parsed, noteAttributesUi) ==
    ObjectAssign(ObjectAssign(NoProps, noteAttributesUi), parsed)

\* attributesObj after both Object.assign calls.
MergeAttributes(parsed, noteAttributesUi) ==
    ObjectAssign(ObjectAssign(NoProps, parsed), noteAttributesUi)

\* Attributes read without the throw of the catch clause: a text that does
\* not parse counts as no JSON attributes.
AttributesOf_Lenient(item) ==
    LET parsed == IF item.attributesJson # <<>> THEN JSONParse(item.attributesJson)
                  ELSE [ok |-> TRUE, props |-> NoProps]
    IN [ok |-> TRUE,
        props |-> MergeAttributes(IF parsed.ok THEN parsed.props ELSE NoProps,
                                  item.noteAttributesUi)]

\* The attributes block of create and of update: ok is FALSE when it throws
\* 'Invalid JSON in Note Attributes', props is attributesObj.
AttributesOf(item) ==
    LET parsed == IF item.attributesJson # <<>> THEN JSONParse(item.attributesJson)
                  ELSE [ok |-> TRUE, props |-> NoProps]
    IN [ok |-> parsed.ok,
        props |-> MergeAttributes(IF parsed.ok THEN parsed.props ELSE NoProps,
                                  item.noteAttributesUi)]

-----------------------------------------------------------------------------
(* Evernote.node.ts: the pieces of the create and update handlers          *)

splitTags(raw) == TrimAndDropEmpty(Split(raw, ","))

\* contentMode === 'html' ? sanitizeHtmlToEnml(htmlContent) : plainTextToEnml(plainContent)
EncodeInput(item) ==
    IF item.contentMode = "html" THEN sanitizeHtmlToEnml(item.contentHtml)
    ELSE plainTextToEnml(item.content)

\* ['keep', 'append', 'searchReplace'].includes(contentEditingMode)
needsExistingContent(item) == item.contentEditingMode \in {"keep", "append", "searchReplace"}

\* The withContent argument of noteStore.getNote: needsExistingContent || !titleUpdate
WithContent(item) == needsExistingContent(item) \/ item.titleUpdate = <<>>

\* A keep branch that encodes the input fields as the replace branch does.
KeepContent_Encoded(item, existingNote) == EncodeInput(item)

\* existingNote.content || wrapEnmlBody('')
KeepContent(item, existingNote) ==
    IF existingNote.content # <<>> THEN existingNote.content ELSE wrapEnmlBody(<<>>)

\* A replace branch that keeps the body of the existing note in front.
ReplaceContent_Keeping(item, existingNote) ==
    wrapEnmlBody(extractEnmlBody(existingNote.content) \o extractEnmlBody(EncodeInput(item)))

ReplaceContent(item, existingNote) == EncodeInput(item)

AppendContent(item, existingNote) ==
    LET existingBody == extractEnmlBody(existingNote.content)
        newBody == extractEnmlBody(EncodeInput(item))
    IN wrapEnmlBody(existingBody \o newBody)

\* contentMode === 'html' ? htmlContent : plainContent
ReplaceValue(item) == IF item.contentMode = "html" THEN item.contentHtml ELSE item.content

\* A searchReplace branch without the check of the search value.
SearchReplaceContent_Unchecked(item, existingNote) ==
    LET existingBody == extractEnmlBody(existingNote.content)
        pattern == SearchPattern(item.searchValue, item.useRegex)
        regex == NewRegExp(pattern, RegExpFlags(item.caseSensitive))
    IN IF ~regex.ok
       THEN [error |-> "Invalid regular expression", content |-> <<>>,
             pattern |-> pattern, flags |-> RegExpFlags(item.caseSensitive)]
       ELSE [error |-> "",
             content |-> wrapEnmlBody(StringReplace(existingBody, regex, ReplaceValue(item))),
             pattern |-> pattern, flags |-> RegExpFlags(item.caseSensitive)]

\* The searchReplace branch: error is "" or the message of the NodeOperationError.
SearchReplaceContent(item, existingNote) ==
    LET existingBody == extractEnmlBody(existingNote.content)
        pattern == SearchPattern(item.searchValue, item.useRegex)
        regex == NewRegExp(pattern, RegExpFlags(item.caseSensitive))
    IN IF item.searchValue = <<>>
       THEN [error |-> "Search Text / Pattern is required", content |-> <<>>,
             pattern |-> <<>>, flags |-> {}]
       ELSE IF ~regex.ok
       THEN [error |-> "Invalid regular expression", content |-> <<>>,
             pattern |-> pattern, flags |-> RegExpFlags(item.caseSensitive)]
       ELSE [error |-> "",
             content |-> wrapEnmlBody(StringReplace(existingBody, regex, ReplaceValue(item))),
             pattern |-> pattern, flags |-> RegExpFlags(item.caseSensitive)]

\* let newContent = ''; if / else if over contentEditingMode
EditContent(item, existingNote) ==
    CASE item.contentEditingMode = "keep" ->
            [error |-> "", content |-> KeepContent(item, existingNote), pattern |-> <<>>, flags |-> {}]
      [] item.contentEditingMode = "replace" ->
            [error |-> "", content |-> ReplaceContent(item, existingNote), pattern |-> <<>>, flags |-> {}]
      [] item.contentEditingMode = "append" ->
            [error |-> "", content |-> AppendContent(item, existingNote), pattern |-> <<>>, flags |-> {}]
      [] item.contentEditingMode = "searchReplace" -> SearchReplaceContent(item, existingNote)
      [] OTHER -> [error |-> "", content |-> <<>>, pattern |-> <<>>, flags |-> {}]

\* The Documents the handler of an item hands to extractEnmlBody: the encoded
\* input in create and append, the existing content in append and
\* searchReplace, the new content of an update with reference tags to add.
ExtractedDocuments(item, existingNote) ==
    IF item.operation = "create" THEN {EncodeInput(item)}
    ELSE (CASE item.contentEditingMode = "append" -> {existingNote.content, EncodeInput(item)}
            [] item.contentEditingMode = "searchReplace" -> {existingNote.content}
            [] OTHER -> {})
         \cup (IF item.addAttachments
                  /\ parseBinaryPropertyNames(item.binaryPropertyNames) # <<>>
               THEN {EditContent(item, existingNote).content} ELSE {})

\* if (mediaTags.length) wrapEnmlBody(`${extractEnmlBody(content)}${mediaTags.join('')}`)
AppendMediaTags(content, mediaTags) ==
    IF mediaTags # <<>> THEN wrapEnmlBody(extractEnmlBody(content) \o Flatten(mediaTags))
    ELSE content

RECURSIVE Dedupe(_)
\* [...new Set(list)]: the first occurrence of each name, in order.
Dedupe(list) ==
    IF list = <<>> THEN <<>>
    ELSE LET front == Dedupe(SubSeq(list, 1, Len(list) - 1))
             last == list[Len(list)]
         IN IF \E k \in 1..Len(front) : front[k] = last THEN front ELSE Append(front, last)

\* Tag names where add puts the requested names after the existing ones as
\* they come.
ReconcileTags_AddAll(tagsMode, existingTagNames, tagNames) ==
    IF tagsMode = "add" THEN existingTagNames \o tagNames
    ELSE IF tagsMode = "remove"
    THEN SelectSeq(existingTagNames, LAMBDA tag : \A k \in 1..Len(tagNames) : tagNames[k] # tag)
    ELSE tagNames

\* Tag names where remove keeps the requested names the note does not carry.
ReconcileTags_RemoveSwapped(tagsMode, existingTagNames, tagNames) ==
    IF tagsMode = "add" THEN Dedupe(existingTagNames \o tagNames)
    ELSE IF tagsMode = "remove"
    THEN SelectSeq(tagNames, LAMBDA tag : \A k \in 1..Len(existingTagNames) : existingTagNames[k] # tag)
    ELSE tagNames

\* The tag names of the update once the existing names are known.
ReconcileTags(tagsMode, existingTagNames, tagNames) ==
    IF tagsMode = "add" THEN Dedupe(existingTagNames \o tagNames)
    ELSE IF tagsMode = "remove"
    THEN SelectSeq(existingTagNames, LAMBDA tag : \A k \in 1..Len(tagNames) : tagNames[k] # tag)
    ELSE tagNames

\* A record field that is set only when present holds.
Optional(present, field) == IF present THEN field ELSE [x \in {} |-> x]

\* noteData whose tag field is set as the create handler sets it: only for a
\* list that is not empty.
UpdateNoteData_TagsWhenAny(item, fr, tagNames) ==
    [title |-> IF item.titleUpdate # <<>> THEN item.titleUpdate ELSE fr.existingNote.title,
     content |-> fr.newContent]
    @@ Optional(item.tagsMode # "ignore" /\ tagNames # <<>>, [tagNames |-> tagNames])
    @@ Optional(fr.attached, [resources |-> fr.resources])
    @@ Optional(item.notebookGuid # <<>>, [notebookGuid |-> item.notebookGuid])
    @@ Optional(DOMAIN AttributesOf(item).props # {}, [attributes |-> NoteAttributes(AttributesOf(item).props)])

\* noteData of the update handler.
UpdateNoteData(item, fr, tagNames) ==
    [title |-> IF item.titleUpdate # <<>> THEN item.titleUpdate ELSE fr.existingNote.title,
     content |-> fr.newContent]
    @@ Optional(item.tagsMode # "ignore", [tagNames |-> tagNames])
    @@ Optional(fr.attached, [resources |-> fr.resources])
    @@ Optional(item.notebookGuid # <<>>, [notebookGuid |-> item.notebookGuid])
    @@ Optional(DOMAIN AttributesOf(item).props # {}, [attributes |-> NoteAttributes(AttributesOf(item).props)])

\* noteData of the create handler.
CreateNoteData(item, fr) ==
    [title |-> item.title,
     content |-> AppendMediaTags(EncodeInput(item), fr.mediaTags)]
    @@ Optional(item.notebookGuid # <<>>, [notebookGuid |-> item.notebookGuid])
    @@ Optional(fr.attached, [resources |-> fr.resources])
    @@ Optional(splitTags(item.tags) # <<>>, [tagNames |-> splitTags(item.tags)])
    @@ Optional(DOMAIN AttributesOf(item).props # {}, [attributes |-> NoteAttributes(AttributesOf(item).props)])

-----------------------------------------------------------------------------
(* Evernote.execute: the loop over the items, one action per stretch of    *)
(* code between two awaited calls                                          *)

NoNote == [title |-> <<>>, content |-> <<>>]

NoData == [x \in {} |-> x]

EmptyFrame ==
    [attached |-> FALSE, propertyNames |-> <<>>, resources |-> <<>>, mediaTags |-> <<>>,
     existingNote |-> NoNote, pattern |-> <<>>, flags |-> {}, newContent |-> <<>>,
     tagNames |-> <<>>, noteData |-> NoData]

Running == [status |-> "running", item |-> 0, message |-> ""]

\* this.getInputData(itemIndex)[0]?.json ?? {} in the catch block.  The
\* argument of getInputData selects an input of the node, of which there is
\* one: for the first item it is that input and [0] the first item; for the
\* second item the runtime either answers with no items, so that {} is taken,
\* or with undefined, whose [0] throws; from the third item on getInputData
\* itself throws.
InputAnswers(i) ==
    IF i = 1 THEN {"input"} ELSE IF i = 2 THEN {"nothing", "throws"} ELSE {"throws"}

\* A catch block that calls the failed operation a second time before it
\* gives the item up.
Raise_RetryOnce(message) ==
    IF /\ pc \in {"updateNote", "createNote"}
       /\ \A c \in 1..Len(calls) : calls[c].item # itemIndex \/ calls[c].op # pc
    THEN UNCHANGED <<frame, returnData, itemIndex, pc, outcome>>
    ELSE
    /\ frame' = EmptyFrame
    /\ IF continueOnFail
       THEN \E answer \in InputAnswers(itemIndex) :
               IF answer = "throws"
               THEN /\ outcome' = [status |-> "thrown", item |-> 0,
                                   message |-> "Could not get input"]
                    /\ pc' = "done"
                    /\ UNCHANGED <<returnData, itemIndex>>
               ELSE /\ returnData' = Append(returnData,
                          [kind |-> "error", pairedItem |-> itemIndex, message |-> message,
                           json |-> IF answer = "input" THEN batch[1].json ELSE "{}"])
                    /\ itemIndex' = itemIndex + 1
                    /\ pc' = "item"
                    /\ outcome' = outcome
       ELSE /\ outcome' = [status |-> "thrown", item |-> itemIndex, message |-> message]
            /\ pc' = "done"
            /\ UNCHANGED <<returnData, itemIndex>>

\* A catch block that isolates every failure, whatever continueOnFail says.
Raise_AlwaysIsolate(message) ==
    /\ frame' = EmptyFrame
    /\ returnData' = Append(returnData,
          [kind |-> "error", pairedItem |-> itemIndex, message |-> message,
           json |-> batch[itemIndex].json])
    /\ itemIndex' = itemIndex + 1
    /\ pc' = "item"
    /\ outcome' = outcome

\* A catch block that puts the error entry in front of the output.
Raise_ErrorsFirst(message) ==
    /\ frame' = EmptyFrame
    /\ IF continueOnFail
       THEN \E answer \in InputAnswers(itemIndex) :
               IF answer = "throws"
               THEN /\ outcome' = [status |-> "thrown", item |-> 0,
                                   message |-> "Could not get input"]
                    /\ pc' = "done"
                    /\ UNCHANGED <<returnData, itemIndex>>
               ELSE /\ returnData' =
                          <<[kind |-> "error", pairedItem |-> itemIndex, message |-> message,
                             json |-> IF answer = "input" THEN batch[1].json ELSE "{}"]>>
                          \o returnData
                    /\ itemIndex' = itemIndex + 1
                    /\ pc' = "item"
                    /\ outcome' = outcome
       ELSE /\ outcome' = [status |-> "thrown", item |-> itemIndex, message |-> message]
            /\ pc' = "done"
            /\ UNCHANGED <<returnData, itemIndex>>

\* The catch block: with continueOnFail the item's entry is pushed and the loop
\* goes on, otherwise the error leaves execute() with the item's index.  An
\* error thrown inside the catch block leaves execute() as it is.
Raise(message) ==
    /\ frame' = EmptyFrame
    /\ IF continueOnFail
       THEN \E answer \in InputAnswers(itemIndex) :
               IF answer = "throws"
               THEN /\ outcome' = [status |-> "thrown", item |-> 0,
                                   message |-> "Could not get input"]
                    /\ pc' = "done"
                    /\ UNCHANGED <<returnData, itemIndex>>
               ELSE /\ returnData' = Append(returnData,
                          [kind |-> "error", pairedItem |-> itemIndex, message |-> message,
                           json |-> IF answer = "input" THEN batch[1].json ELSE "{}"])
                    /\ itemIndex' = itemIndex + 1
                    /\ pc' = "item"
                    /\ outcome' = outcome
       ELSE /\ outcome' = [status |-> "thrown", item |-> itemIndex, message |-> message]
            /\ pc' = "done"
            /\ UNCHANGED <<returnData, itemIndex>>

\* After attachmentResult is known: create builds its note and calls createNote,
\* update fetches the existing note.  The attributes block of create throws
\* before noteData is built.
AfterAttachments(item, fr) ==
    IF item.operation = "create"
    THEN IF ~AttributesOf(item).ok THEN Raise("Invalid JSON in Note Attributes")
         ELSE /\ frame' = [fr EXCEPT !.noteData = CreateNoteData(item, fr)]
              /\ pc' = "createNote"
              /\ UNCHANGED <<returnData, itemIndex, outcome>>
    ELSE /\ frame' = fr
         /\ pc' = "getNote"
         /\ UNCHANGED <<returnData, itemIndex, outcome>>

\* Top of an iteration: the parameters are read and, with addAttachments,
\* buildResourcesFromBinary is entered.
StartItem ==
    /\ pc = "item"
    /\ itemIndex <= Len(batch)
    /\ LET item == batch[itemIndex]
           names == parseBinaryPropertyNames(item.binaryPropertyNames)
       IN IF item.operation \notin {"create", "update"}
          THEN Raise("Unsupported operation")
          ELSE IF item.addAttachments /\ names # <<>>
          THEN /\ frame' = [EmptyFrame EXCEPT !.attached = TRUE, !.propertyNames = names]
               /\ pc' = "build"
               /\ UNCHANGED <<returnData, itemIndex, outcome>>
          ELSE AfterAttachments(item, [EmptyFrame EXCEPT !.attached = item.addAttachments])
    /\ UNCHANGED <<batch, continueOnFail, noteStore, calls>>

\* A builder that stops at a property the item does not carry and returns what
\* it has built so far.
BuildResource_PartialOnMissing ==
    /\ pc = "build"
    /\ LET item == batch[itemIndex]
           k == Len(frame.resources) + 1
           propertyName == frame.propertyNames[k]
       IN IF propertyName \notin DOMAIN item.binary
          THEN AfterAttachments(item, frame)
          ELSE LET built == BuildOne(item.binary[propertyName],
                                     item.binary[propertyName].data, propertyName)
                   fr == [frame EXCEPT !.resources = Append(@, built.resource),
                                       !.mediaTags = Append(@, built.mediaTag)]
               IN IF k < Len(frame.propertyNames)
                  THEN /\ frame' = fr
                       /\ UNCHANGED <<pc, returnData, itemIndex, outcome>>
                  ELSE AfterAttachments(item, fr)
    /\ UNCHANGED <<batch, continueOnFail, noteStore, calls>>

\* One iteration of the loop of buildResourcesFromBinary: assertBinaryData
\* throws for a property the item does not carry.
BuildResource ==
    /\ pc = "build"
    /\ LET item == batch[itemIndex]
           k == Len(frame.resources) + 1
           propertyName == frame.propertyNames[k]
       IN IF propertyName \notin DOMAIN item.binary
          THEN Raise("No binary data exists on item")
          ELSE LET built == BuildOne(item.binary[propertyName],
                                     item.binary[propertyName].data, propertyName)
                   fr == [frame EXCEPT !.resources = Append(@, built.resource),
                                       !.mediaTags = Append(@, built.mediaTag)]
               IN IF k < Len(frame.propertyNames)
                  THEN /\ frame' = fr
                       /\ UNCHANGED <<pc, returnData, itemIndex, outcome>>
                  ELSE AfterAttachments(item, fr)
    /\ UNCHANGED <<batch, continueOnFail, noteStore, calls>>

\* A fetch of the note that is followed by the fetch of its tag names
\* whenever the tags are not ignored.
GetNote_FetchTagsAlways ==
    /\ pc = "getNote"
    /\ LET item == batch[itemIndex]
           existingNote == [title |-> noteStore.title,
                            content |-> IF WithContent(item) THEN noteStore.content ELSE <<>>]
           edit == EditContent(item, existingNote)
           fr == [frame EXCEPT
                    !.existingNote = existingNote,
                    !.pattern = edit.pattern,
                    !.flags = edit.flags,
                    !.newContent = AppendMediaTags(edit.content, frame.mediaTags),
                    !.tagNames = IF item.tagsMode # "ignore" THEN splitTags(item.tags) ELSE <<>>]
       IN /\ calls' = Append(calls, [op |-> "getNote", item |-> itemIndex,
                                      withContent |-> WithContent(item),
                                      result |-> existingNote])
          /\ IF "getNote" \in item.faults THEN Raise("Evernote API error")
             ELSE IF edit.error # "" THEN Raise(edit.error)
             ELSE IF item.tagsMode # "ignore"
             THEN /\ frame' = fr
                  /\ pc' = "getNoteTagNames"
                  /\ UNCHANGED <<returnData, itemIndex, outcome>>
             ELSE IF ~AttributesOf(item).ok THEN Raise("Invalid JSON in Note Attributes")
             ELSE /\ frame' = [fr EXCEPT !.noteData = UpdateNoteData(item, fr, fr.tagNames)]
                  /\ pc' = "updateNote"
                  /\ UNCHANGED <<returnData, itemIndex, outcome>>
    /\ UNCHANGED <<batch, continueOnFail, noteStore>>

\* await noteStore.getNote(...), then the code up to the next awaited call:
\* the new content, the reference tags, the requested tag names and, when no
\* tag fetch is due, the attributes and noteData.
GetNote ==
    /\ pc = "getNote"
    /\ LET item == batch[itemIndex]
           existingNote == [title |-> noteStore.title,
                            content |-> IF WithContent(item) THEN noteStore.content ELSE <<>>]
           edit == EditContent(item, existingNote)
           fr == [frame EXCEPT
                    !.existingNote = existingNote,
                    !.pattern = edit.pattern,
                    !.flags = edit.flags,
                    !.newContent = AppendMediaTags(edit.content, frame.mediaTags),
                    !.tagNames = IF item.tagsMode # "ignore" THEN splitTags(item.tags) ELSE <<>>]
       IN /\ calls' = Append(calls, [op |-> "getNote", item |-> itemIndex,
                                      withContent |-> WithContent(item),
                                      result |-> existingNote])
          /\ IF "getNote" \in item.faults THEN Raise("Evernote API error")
             ELSE IF edit.error # "" THEN Raise(edit.error)
             ELSE IF item.tagsMode \in {"add", "remove"}
             THEN /\ frame' = fr
                  /\ pc' = "getNoteTagNames"
                  /\ UNCHANGED <<returnData, itemIndex, outcome>>
             ELSE IF ~AttributesOf(item).ok THEN Raise("Invalid JSON in Note Attributes")
             ELSE /\ frame' = [fr EXCEPT !.noteData = UpdateNoteData(item, fr, fr.tagNames)]
                  /\ pc' = "updateNote"
                  /\ UNCHANGED <<returnData, itemIndex, outcome>>
    /\ UNCHANGED <<batch, continueOnFail, noteStore>>

\* await noteStore.getNoteTagNames(noteGuid), then the tag names, the
\* attributes and noteData.
GetNoteTagNames ==
    /\ pc = "getNoteTagNames"
    /\ LET item == batch[itemIndex]
           tagNames == ReconcileTags(item.tagsMode, noteStore.tagNames, frame.tagNames)
       IN /\ calls' = Append(calls, [op |-> "getNoteTagNames", item |-> itemIndex,
                                      result |-> noteStore.tagNames])
          /\ IF "getNoteTagNames" \in item.faults THEN Raise("Evernote API error")
             ELSE IF ~AttributesOf(item).ok THEN Raise("Invalid JSON in Note Attributes")
             ELSE /\ frame' = [frame EXCEPT !.tagNames = tagNames,
                                            !.noteData = UpdateNoteData(item, frame, tagNames)]
                  /\ pc' = "updateNote"
                  /\ UNCHANGED <<returnData, itemIndex, outcome>>
    /\ UNCHANGED <<batch, continueOnFail, noteStore>>

\* await noteStore.updateNote(note); the service stores what the note carries.
UpdateNote ==
    /\ pc = "updateNote"
    /\ LET item == batch[itemIndex]
           note == frame.noteData
       IN /\ calls' = Append(calls, [op |-> "updateNote", item |-> itemIndex, note |-> note])
          /\ IF "updateNote" \in item.faults
             THEN Raise("Evernote API error") /\ UNCHANGED noteStore
             ELSE /\ noteStore' = [title |-> note.title,
                                   content |-> note.content,
                                   tagNames |-> IF "tagNames" \in DOMAIN note
                                                THEN note.tagNames ELSE noteStore.tagNames]
                  /\ returnData' = Append(returnData,
                        [kind |-> "json", pairedItem |-> itemIndex, message |-> "",
                         json |-> "updated"])
                  /\ itemIndex' = itemIndex + 1
                  /\ pc' = "item"
                  /\ frame' = EmptyFrame
                  /\ UNCHANGED outcome
    /\ UNCHANGED <<batch, continueOnFail>>

\* await noteStore.createNote(note)
CreateNote ==
    /\ pc = "createNote"
    /\ LET item == batch[itemIndex]
           note == frame.noteData
       IN /\ calls' = Append(calls, [op |-> "createNote", item |-> itemIndex, note |-> note])
          /\ IF "createNote" \in item.faults
             THEN Raise("Evernote API error")
             ELSE /\ returnData' = Append(returnData,
                        [kind |-> "json", pairedItem |-> itemIndex, message |-> "",
                         json |-> "created"])
                  /\ itemIndex' = itemIndex + 1
                  /\ pc' = "item"
                  /\ frame' = EmptyFrame
                  /\ UNCHANGED outcome
    /\ UNCHANGED <<batch, continueOnFail, noteStore>>

\* return [returnData]
Return ==
    /\ pc = "item"
    /\ itemIndex > Len(batch)
    /\ outcome' = [status |-> "returned", item |-> 0, message |-> ""]
    /\ pc' = "done"
    /\ UNCHANGED <<batch, continueOnFail, noteStore, itemIndex, frame, calls, returnData>>

Next == StartItem \/ BuildResource \/ GetNote \/ GetNoteTagNames \/ UpdateNote
        \/ CreateNote \/ Return

-----------------------------------------------------------------------------
(* The inputs explored: stored notes, items and batches                    *)

MaxPieces == 2

BodyPieces == { <<"a",".","A">>, <<"<","b",">","$","5","(","<","/","b",">">> }

RECURSIVE Concats(_)
\* Bodies of up to n pieces: well-formed ENML without a nested root element,
\* which is what the service stores.
Concats(n) ==
    IF n = 0 THEN {<<>>}
    ELSE Concats(n - 1) \cup {b \o piece : b \in Concats(n - 1), piece \in BodyPieces}

StoredBodies == Concats(MaxPieces)

styledRootOpenTag ==
    <<"<","e","n","-","n","o","t","e"," ","s","t","y","l","e","=","\"","c","\"",">">>

RootOpens == {rootOpenTag, styledRootOpenTag}

\* A note as the service holds it: a Document with the given root tag and body.
StoredNote(open, body) ==
    [title |-> <<"N","o","t","e">>,
     content |-> xmlProlog \o enmlDocType \o open \o body \o rootCloseTag,
     tagNames |-> << <<"r","e","d">> >>]

dataName == <<"d","a","t","a">>

docName == <<"d","o","c">>

\* The binary properties an item carries unless stated otherwise.
DefaultBinary ==
    (dataName :> [data |-> <<7, 255>>, mimeType |-> <<"i","m","a","g","e","/","p","n","g">>,
                  fileName |-> <<"a",".","p","d","f">>, file |-> <<>>])
    @@ (docName :> [data |-> <<1>>, mimeType |-> <<>>, fileName |-> <<>>, file |-> <<>>])

\* The parameters getNodeParameter returns with nothing set by the user, for an
\* update that leaves the tags alone.
DefaultItem ==
    [operation |-> "update", json |-> "input", title |-> <<"N","e","w">>,
     contentEditingMode |-> "replace", contentMode |-> "plainText",
     content |-> <<>>, contentHtml |-> <<>>,
     tags |-> <<>>, tagsMode |-> "ignore", titleUpdate |-> <<>>,
     searchValue |-> <<>>, useRegex |-> FALSE, caseSensitive |-> FALSE,
     notebookGuid |-> <<>>, attributesJson |-> <<>>, noteAttributesUi |-> NoProps,
     addAttachments |-> FALSE, binaryPropertyNames |-> dataName,
     binary |-> DefaultBinary, faults |-> {}]

World(items, cof, note) == [batch |-> items, continueOnFail |-> cof, note |-> note]

\* contentMode, content and contentHtml together; the field the format does
\* not read is filled too.
PlainInputs ==
    {[contentMode |-> "plainText", content |-> c, contentHtml |-> <<"<","b",">","x","<","/","b",">">>] :
        c \in { <<>>, <<"x">>, <<"<","a"," ","&"," ","b",">","\n","l">> }}

HtmlInputs ==
    {[contentMode |-> "html", content |-> <<"x">>, contentHtml |-> h] :
        h \in { <<>>,
                <<"<","b",">","x","<","/","b",">">>,
                <<"<","e","n","-","n","o","t","e",">","x","<","/","e","n","-","n","o","t","e",">","y">>,
                <<"<","q",">","a","&","b","<","/","q",">","<","b","r",">">> }}

WithInput(item, in) ==
    [item EXCEPT !.contentMode = in.contentMode, !.content = in.content,
                 !.contentHtml = in.contentHtml]

\* addAttachments and binaryPropertyNames together.
NoAttachment == [addAttachments |-> FALSE, binaryPropertyNames |-> dataName]

OneAttachment == [addAttachments |-> TRUE, binaryPropertyNames |-> dataName]

TwoAttachments ==
    [addAttachments |-> TRUE, binaryPropertyNames |-> <<"d","a","t","a",","," ","d","o","c">>]

WithAttachments(item, att) ==
    [item EXCEPT !.addAttachments = att.addAttachments,
                 !.binaryPropertyNames = att.binaryPropertyNames]

KeepItems ==
    {WithAttachments(WithInput([DefaultItem EXCEPT !.contentEditingMode = "keep",
                                                   !.searchValue = sv], in), att) :
        in \in {i \in PlainInputs \cup HtmlInputs : i.content = <<"x">>},
        sv \in {<<>>, <<"a">>},
        att \in {NoAttachment, OneAttachment, TwoAttachments}}

ReplaceItems ==
    {WithAttachments(WithInput([DefaultItem EXCEPT !.contentEditingMode = "replace",
                                                   !.titleUpdate = t], in), att) :
        in \in PlainInputs \cup HtmlInputs,
        t \in {<<>>, <<"N","e","w">>},
        att \in {NoAttachment, OneAttachment}}

AppendItems ==
    {WithAttachments(WithInput([DefaultItem EXCEPT !.contentEditingMode = "append"], in), att) :
        in \in PlainInputs \cup HtmlInputs,
        att \in {NoAttachment, OneAttachment}}

CreateItems ==
    {WithAttachments(WithInput([DefaultItem EXCEPT !.operation = "create",
                                                   !.tags = tg], in), att) :
        in \in PlainInputs \cup HtmlInputs,
        tg \in {<<>>, <<"r","e","d",","," ","b","l","u","e">>},
        att \in {NoAttachment, OneAttachment, TwoAttachments}}

\* Search values tried as literal text: every character the escape names, and
\* some plain text.
LiteralSearches ==
    {<<c>> : c \in RegExpSyntaxChars} \cup { <<"a">>, <<"A",".">>, <<"$","5">>, <<"a",".","a">> }

\* Search values tried as patterns the RegExp constructor accepts.
PatternSearches ==
    { <<"a">>, <<".">>, <<"\\","d">>, <<"a","*">>, <<"$">>, <<"^","a">>, <<"\\",".">>, <<".","+","?">> }

\* Search values the RegExp constructor rejects as patterns.
BadPatternSearches == { <<"(">>, <<"*">>, <<"\\">>, <<"[">>, <<"a","*","*">>, <<")">> }

\* Replacement texts.
Replacements ==
    {[contentMode |-> "plainText", content |-> c, contentHtml |-> <<>>] :
        c \in { <<>>, <<"x">>, <<"$","&">> }}
    \cup {[contentMode |-> "html", content |-> <<>>, contentHtml |-> h] :
            h \in { <<"<","i",">","$","$","<","/","i",">">>, <<"<","q",">","&">> }}

SearchReplaceItems ==
    {WithInput([DefaultItem EXCEPT !.contentEditingMode = "searchReplace",
                                   !.searchValue = sv, !.useRegex = FALSE,
                                   !.caseSensitive = cs], in) :
        sv \in LiteralSearches, cs \in BOOLEAN,
        in \in {r \in Replacements : r.contentMode = "plainText" /\ r.content # <<>>}}
    \cup
    {WithInput([DefaultItem EXCEPT !.contentEditingMode = "searchReplace",
                                   !.searchValue = sv, !.useRegex = TRUE,
                                   !.caseSensitive = cs], in) :
        sv \in PatternSearches, cs \in BOOLEAN, in \in Replacements}
    \cup
    {WithAttachments([DefaultItem EXCEPT !.contentEditingMode = "searchReplace",
                                         !.searchValue = <<"a">>, !.useRegex = re,
                                         !.content = <<"x">>], OneAttachment) :
        re \in BOOLEAN}

\* Search and replace requests that cannot be carried out.
FailingSearchItems ==
    {[DefaultItem EXCEPT !.contentEditingMode = "searchReplace", !.searchValue = sv,
                         !.useRegex = re, !.content = <<"x">>] :
        sv \in BadPatternSearches \cup {<<>>}, re \in BOOLEAN}

\* Requests that reach the tag fetch, a failing service call, an unknown operation.
OtherItems ==
    {[DefaultItem EXCEPT !.tagsMode = tm, !.tags = <<"r","e","d",","," ","b","l","u","e">>] :
        tm \in {"add", "remove", "replace"}}
    \cup {[DefaultItem EXCEPT !.faults = {f}, !.tagsMode = "add"] :
            f \in {"getNote", "getNoteTagNames", "updateNote"}}
    \cup {[DefaultItem EXCEPT !.operation = "create", !.faults = {"createNote"}],
          [DefaultItem EXCEPT !.operation = "delete"],
          [DefaultItem EXCEPT !.addAttachments = TRUE,
                              !.binaryPropertyNames = <<"d","a","t","a",",","g","o","n","e">>]}

\* The runs of the content editing modes: one item per batch.
EditWorlds ==
    {World(<<item>>, TRUE, StoredNote(open, body)) :
        item \in KeepItems \cup AppendItems, open \in RootOpens, body \in StoredBodies}
    \cup {World(<<item>>, TRUE, StoredNote(rootOpenTag, body)) :
        item \in SearchReplaceItems, body \in StoredBodies}
    \cup {World(<<item>>, TRUE, StoredNote(rootOpenTag, body)) :
        item \in ReplaceItems \cup CreateItems, body \in {<<>>} \cup BodyPieces}
    \cup {World(<<item>>, cof, StoredNote(rootOpenTag, <<"a",".","A">>)) :
        item \in FailingSearchItems \cup OtherItems, cof \in BOOLEAN}

InitOf(worlds) ==
    /\ \E w \in worlds :
          /\ batch = w.batch
          /\ continueOnFail = w.continueOnFail
          /\ noteStore = w.note
    /\ itemIndex = 1
    /\ pc = "item"
    /\ frame = EmptyFrame
    /\ calls = <<>>
    /\ returnData = <<>>
    /\ outcome = Running

Init == InitOf(EditWorlds)

Spec == Init /\ [][Next]_vars

-----------------------------------------------------------------------------
(* The resource builder over many buffers                                  *)

MaxBufLen == 2

Bytes == {0, 7, 255}

RECURSIVE Buffers(_)
Buffers(n) ==
    IF n = 0 THEN {<<>>}
    ELSE Buffers(n - 1) \cup {Append(b, x) : b \in Buffers(n - 1), x \in Bytes}

\* mimeType, fileName and file of a binary property together.
Descriptions ==
    {[mimeType |-> <<"i","m","a","g","e","/","p","n","g">>, fileName |-> <<"a",".","p","d","f">>, file |-> <<>>],
     [mimeType |-> <<>>, fileName |-> <<>>, file |-> <<"f">>],
     [mimeType |-> <<>>, fileName |-> <<>>, file |-> <<>>]}

PropertyNameLists ==
    { <<>>, dataName, <<" ",","," ">>, <<"d","a","t","a",",","d","o","c">>,
      <<" ","d","o","c"," ",",",",","d","a","t","a">>, <<"d","a","t","a",",","g","o","n","e">> }

AttachingItems ==
    {[DefaultItem EXCEPT
        !.operation = op, !.addAttachments = TRUE, !.binaryPropertyNames = raw,
        !.binary = (dataName :> [data |-> buffer, mimeType |-> d.mimeType,
                                 fileName |-> d.fileName, file |-> d.file])
                   @@ DefaultBinary] :
        op \in {"create", "update"}, raw \in PropertyNameLists,
        buffer \in Buffers(MaxBufLen), d \in Descriptions}

ResourceWorlds ==
    {World(<<item>>, TRUE, StoredNote(rootOpenTag, <<"a",".","A">>)) : item \in AttachingItems}
    \cup {World(<<item>>, cof, StoredNote(rootOpenTag, <<"a",".","A">>)) :
            item \in OtherItems, cof \in BOOLEAN}

InitRes == InitOf(ResourceWorlds)

SpecRes == InitRes /\ [][Next]_vars

-----------------------------------------------------------------------------
(* Tags and attributes                                                     *)

redTag == <<"r","e","d">>

blueTag == <<"b","l","u","e">>

greenTag == <<"g","r","e","e","n">>

\* The tag names the stored note carries.
StoredTagNames == { <<>>, <<redTag>>, <<redTag, blueTag>> }

\* Values of the tags parameter.
TagInputs ==
    { <<>>, blueTag,
      <<"r","e","d",","," ","b","l","u","e">>,
      <<"r","e","d",","," ","r","e","d">>,
      <<" ","b","l","u","e"," ",",",","," ","g","r","e","e","n">> }

TagItems ==
    {[DefaultItem EXCEPT !.tagsMode = tm, !.tags = raw] :
        tm \in {"ignore", "replace", "add", "remove"}, raw \in TagInputs}

authorKey == <<"a","u","t","h","o","r">>

sourceKey == <<"s","o","u","r","c","e">>

\* Values of the attributesJson parameter that JSON.parse reads.
JsonInputs ==
    { <<>>,
      <<"{","\"","a","u","t","h","o","r","\"",":","\"","X","\"",",","\"","s","o","u","r","c","e","\"",":","\"","j","s","o","n","\"","}">>,
      <<"{","\"","s","o","u","r","c","e","\"",":","\"","j","s","o","n","\"","}">>,
      <<"{","}">>,
      <<"n","u","l","l">>,
      <<"\"","a","b","\"">> }

\* Values of the attributesJson parameter that JSON.parse rejects.
BadJsonInputs ==
    { <<"{","\"","a","u","t","h","o","r","\"",":","\"","X","\"",",","}">>,
      <<"{","a","u","t","h","o","r",":","\"","X","\"","}">>,
      <<"{","\"","a","u","t","h","o","r","\"",":","\"","X","\"">>,
      <<"I","n","v","a","l","i","d">>,
      <<" ">> }

\* Values of the noteAttributesUi collection.
UiInputs ==
    { NoProps,
      sourceKey :> <<"u","i">>,
      (authorKey :> <<"A">>) @@ (sourceKey :> <<"u","i">>) }

AttributeItems ==
    {[DefaultItem EXCEPT !.operation = h.operation, !.tagsMode = h.tagsMode,
                         !.notebookGuid = h.notebookGuid,
                         !.attributesJson = json, !.noteAttributesUi = ui] :
        h \in {[operation |-> "create", tagsMode |-> "ignore", notebookGuid |-> <<"n","b">>],
               [operation |-> "update", tagsMode |-> "ignore", notebookGuid |-> <<>>],
               [operation |-> "update", tagsMode |-> "add", notebookGuid |-> <<"n","b">>]},
        json \in JsonInputs \cup BadJsonInputs, ui \in UiInputs}

MetaWorlds ==
    {World(<<item>>, TRUE,
           [StoredNote(rootOpenTag, <<"a",".","A">>) EXCEPT !.tagNames = existing]) :
        item \in TagItems, existing \in StoredTagNames}
    \cup {World(<<item>>, cof, StoredNote(rootOpenTag, <<"a",".","A">>)) :
            item \in AttributeItems \cup OtherItems, cof \in BOOLEAN}

InitMeta == InitOf(MetaWorlds)

SpecMeta == InitMeta /\ [][Next]_vars

-----------------------------------------------------------------------------
(* Batches of several items                                                *)

MaxItems == 3

\* The json of the item at each position of a batch.
InputJson == <<"input 1", "input 2", "input 3", "input 4", "input 5">>

\* Items that succeed, and items that fail before the first remote call,
\* after the fetches and in the last call.
BatchItems ==
    {[DefaultItem EXCEPT !.content = <<"x">>],
     [DefaultItem EXCEPT !.operation = "create", !.content = <<"x">>],
     [DefaultItem EXCEPT !.contentEditingMode = "searchReplace"],
     [DefaultItem EXCEPT !.faults = {"updateNote"}],
     [DefaultItem EXCEPT !.operation = "create", !.addAttachments = TRUE,
                         !.binaryPropertyNames = <<"d","a","t","a",",","g","o","n","e">>],
     [DefaultItem EXCEPT !.tagsMode = "add", !.tags = blueTag,
                         !.attributesJson = <<"I","n","v","a","l","i","d">>]}

RECURSIVE Batches(_)
\* The batches of up to n items; each item's json tells its position.
Batches(n) ==
    IF n = 0 THEN {<<>>}
    ELSE Batches(n - 1)
         \cup {Append(b, [item EXCEPT !.json = InputJson[n]]) :
                 b \in {c \in Batches(n - 1) : Len(c) = n - 1}, item \in BatchItems}

BatchWorlds ==
    {World(items, cof, StoredNote(rootOpenTag, <<"a",".","A">>)) :
        items \in Batches(MaxItems) \ {<<>>}, cof \in BOOLEAN}
    \cup {World(<<item>>, cof, StoredNote(rootOpenTag, <<"a",".","A">>)) :
            item \in OtherItems, cof \in BOOLEAN}

InitBatch == InitOf(BatchWorlds)

SpecBatch == InitBatch /\ [][Next]_vars

-----------------------------------------------------------------------------
(* The codec over many texts, and appends that follow one another          *)

\* Values of the plain content parameter.
PlainTexts ==
    { <<>>, <<"x">>, <<"<","a"," ","&"," ","b",">","\n","l">>, <<"a","\r","\n","b">>,
      <<"\n","\n">>, <<"\"","q","\"">>, <<"&","a","m","p",";">>, <<"a","\r","b">> }

\* Replacement texts with and without tags that look like the root element's.
RootLikeTexts ==
    { <<"x">>, <<"<","e","n","-","n","o","t","e",">">>,
      <<"a","<","/","e","n","-","n","o","t","e",">","a">>,
      <<"y","<","/","E","N","-","N","O","T","E",">","z">> }

CodecItems ==
    {WithAttachments([DefaultItem EXCEPT !.operation = op, !.content = text], att) :
        op \in {"create", "update"}, text \in PlainTexts,
        att \in {NoAttachment, OneAttachment}}
    \cup {WithAttachments([DefaultItem EXCEPT !.contentEditingMode = "searchReplace",
                                              !.searchValue = <<"a">>,
                                              !.caseSensitive = TRUE,
                                              !.content = text], att) :
            text \in RootLikeTexts, att \in {NoAttachment, OneAttachment}}
    \cup {WithAttachments(WithInput([DefaultItem EXCEPT !.operation = op,
                                                        !.contentEditingMode = "append"], in), att) :
            op \in {"create", "update"}, in \in HtmlInputs,
            att \in {NoAttachment, OneAttachment}}

\* The same append asked for n times in one batch.
Repeated(item, n) == [k \in 1..n |-> item]

CodecWorlds ==
    {World(<<item>>, TRUE, StoredNote(open, body)) :
        item \in CodecItems, open \in RootOpens, body \in {<<>>} \cup BodyPieces}
    \cup {World(Repeated(item, n), TRUE, StoredNote(open, body)) :
            item \in {i \in AppendItems : ~i.addAttachments}, n \in 1..MaxItems,
            open \in RootOpens, body \in {<<>>} \cup BodyPieces}
    \cup {World(<<item>>, cof, StoredNote(rootOpenTag, <<"a",".","A">>)) :
            item \in OtherItems, cof \in BOOLEAN}

InitCodec == InitOf(CodecWorlds)

SpecCodec == InitCodec /\ [][Next]_vars

-----------------------------------------------------------------------------
(* Vocabulary of the properties                                            *)

\* The Documents of the model start with one of these.
DocumentPrefixes == {xmlProlog \o enmlDocType \o open : open \in RootOpens}

\* doc is prolog, doctype and one root element around a body.
IsDocument(doc) ==
    \E p \in DocumentPrefixes :
        /\ HasAt(doc, 1, p)
        /\ Len(doc) >= Len(p) + Len(rootCloseTag)
        /\ HasAt(doc, Len(doc) - Len(rootCloseTag) + 1, rootCloseTag)

\* The body of a Document: all that lies between the root element's opening
\* tag and the closing tag that ends the Document.
BodyOf(doc) ==
    LET p == CHOOSE q \in DocumentPrefixes : HasAt(doc, 1, q)
    IN Slice(doc, Len(p) + 1, Len(doc) - Len(rootCloseTag))

EndsWith(s, suffix) == HasAt(s, Len(s) - Len(suffix) + 1, suffix)

\* The positions of the create-note and update-note calls in the call log.
SendCalls == {c \in 1..Len(calls) : calls[c].op \in {"createNote", "updateNote"}}

UpdateCalls == {c \in 1..Len(calls) : calls[c].op = "updateNote"}

\* The note the getNote call of item i returned.
ExistingFor(i) ==
    calls[CHOOSE c \in 1..Len(calls) : calls[c].op = "getNote" /\ calls[c].item = i].result

\* The value of the hash attribute of a reference tag.
HashAttribute(tag) ==
    LET marker == <<"h","a","s","h","=","\"">>
        start == Min({i \in 1..Len(tag) : HasAt(tag, i, marker)}) + Len(marker)
        stop == Min({j \in start..Len(tag) : tag[j] = "\""})
    IN Slice(tag, start, stop - 1)

\* The reference tags that belong to a list of resources.
TagsOf(resources) ==
    Flatten([k \in 1..Len(resources) |->
               MediaTag(resources[k].mime, toHex(md5(resources[k].data.body)))])

-----------------------------------------------------------------------------
(* Properties                                                              *)

\* C1: for every binary input the builder has processed, the hash in the k-th
\* reference tag is the hex form of the bodyHash of the k-th resource, and both
\* are the hash of the bytes the item carries, which are the resource's body;
\* the note that is sent carries these resources and these tags.
C1_HashBinding ==
    /\ \A k \in 1..Len(frame.resources) :
          LET r == frame.resources[k]
              bytes == batch[itemIndex].binary[frame.propertyNames[k]].data
          IN /\ k <= Len(frame.mediaTags)
             /\ r.data.body = bytes
             /\ r.data.bodyHash = md5(bytes)
             /\ HashAttribute(frame.mediaTags[k]) = toHex(r.data.bodyHash)
    /\ \A c \in SendCalls :
          "resources" \in DOMAIN calls[c].note =>
             /\ \A k \in 1..Len(calls[c].note.resources) :
                   calls[c].note.resources[k].data.bodyHash
                      = md5(calls[c].note.resources[k].data.body)
             /\ EndsWith(BodyOf(calls[c].note.content), TagsOf(calls[c].note.resources))

\* Two resources were built, one over bytes that are not ASCII, and sent.
C1_Witness ==
    \E c \in SendCalls :
        /\ "resources" \in DOMAIN calls[c].note
        /\ Len(calls[c].note.resources) = 2
        /\ \E k \in 1..2 : \E j \in 1..Len(calls[c].note.resources[k].data.body) :
              calls[c].note.resources[k].data.body[j] = 255

\* The mode is applied to what getNote returned; these are the runs with an
\* update-note call for an item of the given mode.
UpdateCallsIn(mode) ==
    {c \in UpdateCalls : batch[calls[c].item].contentEditingMode = mode}

\* The reference tags of the resources a sent note carries, none without them.
SentTags(note) == IF "resources" \in DOMAIN note THEN TagsOf(note.resources) ELSE <<>>

\* C2: in Append mode the body sent to update-note is the existing note's body
\* followed by the body of the newly encoded input, nothing between them and
\* nothing removed (reference tags of built resources come after).
C2_AppendBody ==
    \A c \in UpdateCallsIn("append") :
        LET i == calls[c].item
        IN BodyOf(calls[c].note.content)
              = BodyOf(ExistingFor(i).content) \o BodyOf(EncodeInput(batch[i]))
                \o SentTags(calls[c].note)

\* C3: in Keep mode the body sent to update-note is the existing note's body,
\* whatever the content, HTML content, content format and search fields hold;
\* without built resources the whole Document is the existing one, with them
\* their reference tags follow the body.
C3_KeepBody ==
    \A c \in UpdateCallsIn("keep") :
        LET i == calls[c].item
        IN /\ BodyOf(calls[c].note.content)
                 = BodyOf(ExistingFor(i).content) \o SentTags(calls[c].note)
           /\ SentTags(calls[c].note) = <<>>
                 => calls[c].note.content = ExistingFor(i).content

\* A Keep update went out for a note with a body and a styled root element,
\* while the content, HTML content and search fields were all filled.
C3_Witness ==
    \E c \in UpdateCallsIn("keep") :
        LET item == batch[calls[c].item]
        IN /\ item.content # <<>> /\ item.contentHtml # <<>> /\ item.searchValue # <<>>
           /\ item.contentMode = "html"
           /\ HasAt(ExistingFor(calls[c].item).content,
                    Len(xmlProlog) + Len(enmlDocType) + 1, styledRootOpenTag)
           /\ Len(BodyOf(ExistingFor(calls[c].item).content)) > 3

C10_TagsAfterModeBody ==
    pc \in {"updateNote", "createNote"} /\ frame.mediaTags # <<>> =>
        LET item == batch[itemIndex]
            modeContent == IF item.operation = "create" THEN EncodeInput(item)
                           ELSE EditContent(item, frame.existingNote).content
        IN BodyOf(frame.noteData.content) = BodyOf(modeContent) \o Flatten(frame.mediaTags)

\* s and t are the same text, up to letter case unless caseSensitive.
SameText(s, t, caseSensitive) ==
    IF caseSensitive THEN s = t ELSE Len(s) = Len(t) /\ HasAtI(s, 1, t)

RECURSIVE ReplaceOccurrences(_, _, _, _)
\* body with every occurrence of the text search, taken from the left and not
\* overlapping, replaced by the text replacement; search is not empty.
ReplaceOccurrences(body, search, replacement, caseSensitive) ==
    IF body = <<>> THEN <<>>
    ELSE IF Len(search) <= Len(body)
            /\ SameText(SubSeq(body, 1, Len(search)), search, caseSensitive)
         THEN replacement
              \o ReplaceOccurrences(Slice(body, Len(search) + 1, Len(body)),
                                    search, replacement, caseSensitive)
    ELSE <<Head(body)>> \o ReplaceOccurrences(Tail(body), search, replacement, caseSensitive)

RECURSIVE ReplaceSpans(_, _, _, _, _)
\* s with the k-th and later spans of matches replaced by the text value, the
\* text between the spans kept.
ReplaceSpans(s, matches, k, from, value) ==
    IF k > Len(matches) THEN Slice(s, from, Len(s))
    ELSE Slice(s, from, matches[k][1] - 1) \o value
         \o ReplaceSpans(s, matches, k + 1, matches[k][2], value)

Chars(s) == {s[k] : k \in 1..Len(s)}

RECURSIVE Occurrences(_, _, _)
\* The number of occurrences ReplaceOccurrences replaces.
Occurrences(body, search, caseSensitive) ==
    IF Len(body) < Len(search) THEN 0
    ELSE IF SameText(SubSeq(body, 1, Len(search)), search, caseSensitive)
         THEN 1 + Occurrences(Slice(body, Len(search) + 1, Len(body)), search, caseSensitive)
    ELSE Occurrences(Tail(body), search, caseSensitive)

\* The item that is in its update handler past getNote, in searchReplace mode.
InSearchReplace ==
    /\ pc \in {"getNoteTagNames", "updateNote"}
    /\ batch[itemIndex].contentEditingMode = "searchReplace"

\* C5: with "use regex" off the search value is matched as literal text: the
\* spans the compiled pattern matches in the existing body are the occurrences
\* of the search value (up to case unless case sensitive) and nothing else is
\* replaced; with "use regex" on the pattern compiled is the search value itself.
C5_LiteralOrVerbatim ==
    /\ InSearchReplace =>
          LET item == batch[itemIndex]
              body == BodyOf(frame.existingNote.content)
              spans == FindMatches(NewRegExp(frame.pattern, frame.flags), body, 1)
          IN IF item.useRegex THEN frame.pattern = item.searchValue
             ELSE /\ \A k \in 1..Len(spans) :
                        SameText(Slice(body, spans[k][1], spans[k][2] - 1),
                                 item.searchValue, item.caseSensitive)
                  /\ Len(spans) = Occurrences(body, item.searchValue, item.caseSensitive)
    /\ \A c \in UpdateCallsIn("searchReplace") :
          LET item == batch[calls[c].item]
          IN ~item.useRegex /\ "$" \notin Chars(ReplaceValue(item)) /\ SentTags(calls[c].note) = <<>> =>
                BodyOf(calls[c].note.content)
                   = ReplaceOccurrences(BodyOf(ExistingFor(calls[c].item).content),
                                        item.searchValue, ReplaceValue(item), item.caseSensitive)

\* A literal search for the dot changed the dots of a body and left its other
\* characters alone.
C5_Witness ==
    \E c \in UpdateCallsIn("searchReplace") :
        LET item == batch[calls[c].item]
            body == BodyOf(ExistingFor(calls[c].item).content)
        IN /\ ~item.useRegex /\ item.searchValue = <<".">> /\ ReplaceValue(item) = <<"x">>
           /\ Occurrences(body, <<".">>, TRUE) = 2
           /\ Len(BodyOf(calls[c].note.content)) = Len(body)
           /\ BodyOf(calls[c].note.content) # body

\* Search values that are the same text as a pattern and as a literal.
PlainSearch(item) == Chars(item.searchValue) \cap RegExpSyntaxChars = {} /\ item.searchValue # <<>>

\* C6: the replacement is global whatever the flags: every occurrence in the
\* existing body is replaced; letter case is ignored exactly when the "case
\* sensitive" flag is off.
C6_GlobalAndCase ==
    /\ InSearchReplace =>
          /\ "g" \in frame.flags
          /\ "i" \in frame.flags <=> ~batch[itemIndex].caseSensitive
    /\ \A c \in UpdateCallsIn("searchReplace") :
          LET item == batch[calls[c].item]
          IN PlainSearch(item) /\ "$" \notin Chars(ReplaceValue(item)) /\ SentTags(calls[c].note) = <<>> =>
                BodyOf(calls[c].note.content)
                   = ReplaceOccurrences(BodyOf(ExistingFor(calls[c].item).content),
                                        item.searchValue, ReplaceValue(item), item.caseSensitive)

\* A case sensitive search replaced two occurrences and left the occurrences in
\* the other letter case.
C6_Witness ==
    \E c \in UpdateCallsIn("searchReplace") :
        LET item == batch[calls[c].item]
            body == BodyOf(ExistingFor(calls[c].item).content)
        IN /\ item.caseSensitive /\ PlainSearch(item) /\ "$" \notin Chars(ReplaceValue(item))
           /\ Occurrences(body, item.searchValue, TRUE) = 2
           /\ Occurrences(body, item.searchValue, FALSE) = 4
           /\ Occurrences(BodyOf(calls[c].note.content), item.searchValue, FALSE) = 2

\* C7: the body sent is the existing body with each matched span replaced by
\* the replacement value itself, character for character, and the text outside
\* the matches unchanged, for every replacement value.
C7_ReplacementVerbatim ==
    \A c \in UpdateCallsIn("searchReplace") :
        LET item == batch[calls[c].item]
            body == BodyOf(ExistingFor(calls[c].item).content)
            regex == NewRegExp(SearchPattern(item.searchValue, item.useRegex),
                               RegExpFlags(item.caseSensitive))
        IN SentTags(calls[c].note) = <<>> =>
              BodyOf(calls[c].note.content)
                 = ReplaceSpans(body, FindMatches(regex, body, 1), 1, 1, ReplaceValue(item))

\* The error item i ended with: the message of its error entry or of the error
\* that left execute(), "" without one.
ErrorOf(i) ==
    IF outcome.status = "thrown" /\ outcome.item = i THEN outcome.message
    ELSE IF \E e \in 1..Len(returnData) :
               returnData[e].kind = "error" /\ returnData[e].pairedItem = i
    THEN returnData[CHOOSE e \in 1..Len(returnData) :
               returnData[e].kind = "error" /\ returnData[e].pairedItem = i].message
    ELSE ""

\* getNote has returned for item i.
Fetched(i) ==
    /\ \E c \in 1..Len(calls) : calls[c].op = "getNote" /\ calls[c].item = i
    /\ "getNote" \notin batch[i].faults

NoUpdateCallFor(i) == \A c \in UpdateCalls : calls[c].item # i

\* C8: an update in searchReplace mode with an empty search value ends with
\* the validation error for that item, and no update-note call is issued for it.
C8_EmptySearch ==
    \A i \in 1..Len(batch) :
        batch[i].operation = "update" /\ batch[i].contentEditingMode = "searchReplace"
        /\ batch[i].searchValue = <<>> =>
            /\ NoUpdateCallFor(i)
            /\ Fetched(i) => ErrorOf(i) = "Search Text / Pattern is required"

\* The validation error was raised after the fetch and became the item's
\* output entry, with which the execution returned.
C8_Witness ==
    /\ batch[1].contentEditingMode = "searchReplace" /\ batch[1].searchValue = <<>>
    /\ batch[1].useRegex
    /\ Fetched(1)
    /\ pc = "done"
    /\ outcome.status = "returned"
    /\ Len(returnData) = 1 /\ returnData[1].kind = "error"

\* C9: an update in searchReplace mode whose pattern does not compile ends
\* with the invalid-pattern error for that item and without an update-note
\* call; with "use regex" off no search value that is not empty ends so.
C9_InvalidPattern ==
    \A i \in 1..Len(batch) :
        batch[i].operation = "update" /\ batch[i].contentEditingMode = "searchReplace" =>
            /\ batch[i].useRegex /\ batch[i].searchValue \in BadPatternSearches =>
                  /\ NoUpdateCallFor(i)
                  /\ Fetched(i) => ErrorOf(i) = "Invalid regular expression"
            /\ ~batch[i].useRegex /\ batch[i].searchValue # <<>> =>
                  /\ ErrorOf(i) # "Invalid regular expression"
                  /\ Fetched(i) /\ batch[i].faults = {} /\ (pc = "done" \/ itemIndex > i)
                        => ~NoUpdateCallFor(i)

\* The pattern "(" was rejected after the fetch and the error left execute().
C9_Witness ==
    /\ batch[1].contentEditingMode = "searchReplace" /\ batch[1].useRegex
    /\ batch[1].searchValue = <<"(">>
    /\ outcome.status = "thrown" /\ outcome.message = "Invalid regular expression"
    /\ Len(calls) = 1 /\ Fetched(1)

RECURSIVE AllowlistedFrom(_, _, _)
\* body from position i on, inside the open elements of stack (innermost
\* first), is text and well nested tags with allowlisted names: no tag stays
\* open, no stray closing tag, and "&" only as the start of an entity.
AllowlistedFrom(body, i, stack) ==
    IF i > Len(body) THEN stack = <<>>
    ELSE IF body[i] = "<"
         THEN LET e == TagEnd(body, i)
                  tag == ParseTag(Slice(body, i + 1, e - 1))
              IN /\ e # 0
                 /\ tag.name \in allowedTags
                 /\ IF tag.closing
                    THEN stack # <<>> /\ Head(stack) = tag.name
                         /\ AllowlistedFrom(body, e + 1, Tail(stack))
                    ELSE AllowlistedFrom(body, e + 1,
                                         IF tag.selfClosed THEN stack ELSE <<tag.name>> \o stack)
    ELSE IF body[i] = "&"
         THEN /\ \E entity \in { <<"&","a","m","p",";">>, <<"&","l","t",";">>,
                                 <<"&","g","t",";">>, <<"&","q","u","o","t",";">> } :
                    HasAt(body, i, entity)
              /\ AllowlistedFrom(body, i + 1, stack)
    ELSE AllowlistedFrom(body, i + 1, stack)

\* C11: every Document handed to create-note or update-note is prolog, doctype
\* and one root element around a body, and the body holds only allowlisted,
\* well nested markup (the stored bodies do): user text and HTML are in it
\* escaped or sanitized, never raw.
C11_DocumentForm ==
    \A c \in SendCalls :
        /\ IsDocument(calls[c].note.content)
        /\ AllowlistedFrom(BodyOf(calls[c].note.content), 1, <<>>)

\* The names of a list of tag names, as a set.
Names(list) == {list[k] : k \in 1..Len(list)}

NoDuplicates(list) == \A j, k \in 1..Len(list) : list[j] = list[k] => j = k

\* The names asked for: the parts of the comma-separated list without the
\* blanks around them, the empty ones left out.
RequestedNames(raw) == {Trim(part) : part \in Names(Split(raw, ","))} \ {<<>>}

\* The tag names the getNoteTagNames call of item i returned.
ExistingTagsFor(i) ==
    calls[CHOOSE c \in 1..Len(calls) :
             calls[c].op = "getNoteTagNames" /\ calls[c].item = i].result

\* The update-note calls for an item of the given tags mode.
UpdateCallsTagged(mode) == {c \in UpdateCalls : batch[calls[c].item].tagsMode = mode}

\* C12: in tags mode Replace the tags sent are the requested names, trimmed,
\* without empty names and without a name twice, whatever the note carries.
C12_ReplaceTags ==
    \A c \in UpdateCallsTagged("replace") :
        /\ "tagNames" \in DOMAIN calls[c].note
        /\ Names(calls[c].note.tagNames) = RequestedNames(batch[calls[c].item].tags)
        /\ NoDuplicates(calls[c].note.tagNames)

\* C13: in tags mode Add the tags sent are the existing names and the
\* requested names, nothing else, and no name twice.
C13_AddTags ==
    \A c \in UpdateCallsTagged("add") :
        /\ "tagNames" \in DOMAIN calls[c].note
        /\ Names(calls[c].note.tagNames)
              = Names(ExistingTagsFor(calls[c].item))
                \cup RequestedNames(batch[calls[c].item].tags)
        /\ NoDuplicates(calls[c].note.tagNames)

\* An Add went out for a note with two tags, one of them requested again
\* together with a new one.
C13_Witness ==
    \E c \in UpdateCallsTagged("add") :
        /\ ExistingTagsFor(calls[c].item) = <<redTag, blueTag>>
        /\ RequestedNames(batch[calls[c].item].tags) = {blueTag, greenTag}
        /\ Len(calls[c].note.tagNames) = 3

\* C14: in tags mode Remove the tags sent are the existing names without the
\* requested ones; a requested name the note does not carry is not added.
C14_RemoveTags ==
    \A c \in UpdateCallsTagged("remove") :
        /\ "tagNames" \in DOMAIN calls[c].note
        /\ Names(calls[c].note.tagNames)
              = Names(ExistingTagsFor(calls[c].item))
                \ RequestedNames(batch[calls[c].item].tags)
        /\ NoDuplicates(calls[c].note.tagNames)

\* A Remove went out for a note with two tags, one of them requested together
\* with a name the note does not carry.
C14_Witness ==
    \E c \in UpdateCallsTagged("remove") :
        /\ ExistingTagsFor(calls[c].item) = <<redTag, blueTag>>
        /\ RequestedNames(batch[calls[c].item].tags) = {blueTag, greenTag}
        /\ calls[c].note.tagNames = <<redTag>>

\* C15: in tags mode Ignore the note sent to update-note has no tag field,
\* whatever the tags input holds; in every other mode it has one, also for an
\* empty list.
C15_TagField ==
    \A c \in UpdateCalls :
        "tagNames" \in DOMAIN calls[c].note <=> batch[calls[c].item].tagsMode # "ignore"

\* A Remove took the note's only tag away and the empty list was sent.
C15_Witness ==
    \E c \in UpdateCallsTagged("remove") :
        /\ ExistingTagsFor(calls[c].item) = <<redTag>>
        /\ "tagNames" \in DOMAIN calls[c].note
        /\ calls[c].note.tagNames = <<>>

\* The attributes a sent note carries, none without the field.
SentAttributes(note) == IF "attributes" \in DOMAIN note THEN note.attributes ELSE NoProps

\* C16: with the JSON attributes and the structured fields both given, the
\* attributes sent hold every attribute of either, and a key of both has the value
\* of the structured field; {"author":"X","source":"json"} under the
\* structured field source = ui is sent as author X, source ui.
C16_AttributeMerge ==
    \A c \in SendCalls :
        LET item == batch[calls[c].item]
            parsed == JSONParse(item.attributesJson).props
            ui == item.noteAttributesUi
            sent == SentAttributes(calls[c].note)
        IN item.attributesJson # <<>> =>
              /\ DOMAIN sent = (DOMAIN parsed \cup DOMAIN ui) \cap NoteAttributeFields
              /\ \A key \in DOMAIN ui : sent[key] = ui[key]
              /\ \A key \in DOMAIN sent \ DOMAIN ui : sent[key] = parsed[key]
              /\ DOMAIN ui = {sourceKey} /\ Len(item.attributesJson) = 30 =>
                    sent = (authorKey :> <<"X">>) @@ (sourceKey :> ui[sourceKey])

\* A note went out whose JSON attributes and structured fields both set the
\* source, and the JSON alone the author.
C16_Witness ==
    \E c \in SendCalls :
        LET item == batch[calls[c].item]
        IN /\ DOMAIN item.noteAttributesUi = {sourceKey}
           /\ Len(item.attributesJson) = 30
           /\ DOMAIN JSONParse(item.attributesJson).props = {authorKey, sourceKey}
           /\ JSONParse(item.attributesJson).props[sourceKey] # item.noteAttributesUi[sourceKey]
           /\ DOMAIN SentAttributes(calls[c].note) = {authorKey, sourceKey}

NoSendCallFor(i) == \A c \in SendCalls : calls[c].item # i

\* Item i is over: the loop went on past it or execute() ended.
Over(i) == itemIndex > i \/ pc = "done"

\* Nothing but its attributes can make item i fail.
OnlyAttributesCanFail(item) ==
    /\ item.operation \in {"create", "update"}
    /\ item.faults = {}
    /\ ~item.addAttachments
    /\ item.contentEditingMode # "searchReplace"

\* C17: a create or update whose JSON attributes are not empty and malformed
\* ends with the validation error for that item and without a create-note or
\* update-note call, with or without structured fields.
C17_MalformedJson ==
    \A i \in 1..Len(batch) :
        batch[i].operation \in {"create", "update"}
        /\ batch[i].attributesJson \in BadJsonInputs =>
            /\ NoSendCallFor(i)
            /\ Over(i) /\ OnlyAttributesCanFail(batch[i])
                  => ErrorOf(i) = "Invalid JSON in Note Attributes"

\* An update with structured fields and malformed JSON fetched the note and
\* its tags and ended with the validation error as its output entry.
C17_Witness ==
    /\ batch[1].operation = "update"
    /\ batch[1].attributesJson \in BadJsonInputs
    /\ DOMAIN batch[1].noteAttributesUi # {}
    /\ Len(calls) = 2
    /\ Len(returnData) = 1 /\ returnData[1].kind = "error"
    /\ returnData[1].message = "Invalid JSON in Note Attributes"
    /\ pc = "done"

\* The output entries paired to item i.
EntriesOf(i) == {e \in 1..Len(returnData) : returnData[e].pairedItem = i}

\* C18: with continueOnFail an item that fails gives exactly one output entry,
\* which holds the item's own input and is paired to its index, and the items
\* after it are processed: no error leaves execute().
C18_FailureIsolation ==
    continueOnFail =>
        /\ outcome.status # "thrown"
        /\ \A e \in 1..Len(returnData) :
              returnData[e].kind = "error"
                 => returnData[e].json = batch[returnData[e].pairedItem].json
        /\ \A i \in 1..Len(batch) : Over(i) => Cardinality(EntriesOf(i)) = 1

\* Without continueOnFail: an error has left execute() only for the item in
\* work, every item before it has its result entry, no entry is an error
\* entry, and no call belongs to a later item.
AbortedAtFirstFailure ==
    /\ \A e \in 1..Len(returnData) :
          returnData[e].kind = "json" /\ returnData[e].pairedItem = e
    /\ outcome.status = "thrown" =>
          /\ pc = "done"
          /\ outcome.item = itemIndex
          /\ Len(returnData) = itemIndex - 1
          /\ \A c \in 1..Len(calls) : calls[c].item <= outcome.item

\* C19: without continueOnFail the first item that fails ends the execution
\* with an error that carries its index; from then on no output is returned
\* and no remote call is issued.
C19_AbortsBatch ==
    /\ [](~continueOnFail => AbortedAtFirstFailure)
    /\ [][~continueOnFail /\ outcome.status = "thrown" => UNCHANGED vars]_vars

\* The second of three items failed in its last call and the error left
\* execute() with one result entry behind it.
C19_Witness ==
    /\ ~continueOnFail
    /\ Len(batch) = 3
    /\ outcome.status = "thrown" /\ outcome.item = 2
    /\ "updateNote" \in batch[2].faults
    /\ Len(returnData) = 1
    /\ calls[Len(calls)].item = 2

\* The create-note and update-note calls of item i.
SendCallsOf(i) == {c \in SendCalls : calls[c].item = i}

\* An item that fails in a step before its create-note or update-note call.
FailsBeforeSend(item) ==
    \/ item.operation \notin {"create", "update"}
    \/ item.addAttachments
       /\ \E name \in Names(parseBinaryPropertyNames(item.binaryPropertyNames)) :
             name \notin DOMAIN item.binary
    \/ item.operation = "update" /\ item.contentEditingMode = "searchReplace"
       /\ (item.searchValue = <<>> \/ (item.useRegex /\ item.searchValue \in BadPatternSearches))
    \/ item.attributesJson \in BadJsonInputs
    \/ item.operation = "update" /\ "getNote" \in item.faults
    \/ item.operation = "update" /\ item.tagsMode \in {"add", "remove"}
       /\ "getNoteTagNames" \in item.faults

\* C20: every item has at most one create-note or update-note call; the call
\* carries the finished note (body, tags and attributes computed) and no call
\* of the item follows it; an item that fails in an earlier step has none, and
\* a call that failed is not made again.
C20_SingleSend ==
    /\ \A i \in 1..Len(batch) :
          /\ Cardinality(SendCallsOf(i)) <= 1
          /\ \A c \in SendCallsOf(i) :
                /\ \A d \in (c + 1)..Len(calls) : calls[d].item # i
                /\ calls[c].op = (IF batch[i].operation = "create" THEN "createNote"
                                  ELSE "updateNote")
                /\ IsDocument(calls[c].note.content)
                /\ AttributesOf(batch[i]).ok
                /\ SentAttributes(calls[c].note) = NoteAttributes(AttributesOf(batch[i]).props)
                /\ batch[i].operation = "update" /\ batch[i].tagsMode \in {"add", "remove"}
                      => \E d \in 1..(c - 1) :
                            calls[d].item = i /\ calls[d].op = "getNoteTagNames"
          /\ FailsBeforeSend(batch[i]) => SendCallsOf(i) = {}
    /\ pc \in {"updateNote", "createNote"} =>
          frame.noteData # NoData /\ SendCallsOf(itemIndex) = {}

\* The first of three items failed in its update-note call, which was made
\* once, and the items after it were processed.
C20_Witness ==
    /\ Len(batch) = 3
    /\ "updateNote" \in batch[1].faults
    /\ Cardinality(SendCallsOf(1)) = 1
    /\ Cardinality(SendCallsOf(2)) = 1
    /\ Over(3)
    /\ outcome.status = "returned"

\* The calls of item i that fetch the tag names of its note.
TagFetchesOf(i) ==
    {c \in 1..Len(calls) : calls[c].op = "getNoteTagNames" /\ calls[c].item = i}

\* C28: an update fetches the existing tag names exactly when its tags mode
\* is add or remove, once, before the tag names are computed and before the
\* update-note call; in the modes replace and ignore there is no such fetch.
C28_TagFetch ==
    \A i \in 1..Len(batch) :
        LET item == batch[i]
            reconciles == item.operation = "update" /\ item.tagsMode \in {"add", "remove"}
        IN /\ TagFetchesOf(i) # {} => reconciles
           /\ Cardinality(TagFetchesOf(i)) <= 1
           /\ \A c \in SendCallsOf(i) :
                 reconciles =>
                    \E d \in TagFetchesOf(i) :
                       /\ d < c
                       /\ calls[c].note.tagNames
                             = ReconcileTags(item.tagsMode, calls[d].result, splitTags(item.tags))
           /\ i = itemIndex /\ pc = "updateNote" /\ reconciles => TagFetchesOf(i) # {}
           /\ i = itemIndex /\ pc = "getNoteTagNames"
                 => TagFetchesOf(i) = {} /\ frame.tagNames = splitTags(item.tags)
                    /\ frame.noteData = NoData

\* An update in remove mode was sent after the one fetch of the tag names,
\* which changed what is sent.
C28_Witness ==
    \E c \in UpdateCalls :
        /\ batch[calls[c].item].tagsMode = "remove"
        /\ Cardinality(TagFetchesOf(calls[c].item)) = 1
        /\ calls[c].note.tagNames # splitTags(batch[calls[c].item].tags)
        /\ calls[c].note.tagNames # <<>>

\* C29: an update asks getNote for the content of the existing note in the
\* modes append and searchReplace, as the item's first call and so before
\* the new body is computed, and does not ask for it in replace mode, with a
\* new title or without.
C29_ContentFetch ==
    \A c \in 1..Len(calls) :
        calls[c].op = "getNote" =>
           LET item == batch[calls[c].item]
           IN /\ item.contentEditingMode \in {"append", "searchReplace"} => calls[c].withContent
              /\ item.contentEditingMode = "replace" => ~calls[c].withContent
              /\ \A d \in 1..(c - 1) : calls[d].item # calls[c].item

\* C30: the note handed to create-note or update-note carries a resources
\* field exactly when a resource was built for the item, and never an empty
\* list.
C30_ResourcesField ==
    \A c \in SendCalls :
        LET note == calls[c].note
            item == batch[calls[c].item]
        IN /\ "resources" \in DOMAIN note
                 <=> item.addAttachments
                     /\ parseBinaryPropertyNames(item.binaryPropertyNames) # <<>>
           /\ "resources" \in DOMAIN note => note.resources # <<>>

\* The output entries and the remote calls follow the order of the items, and
\* every call belongs to an item the loop has reached.
InInputOrder ==
    /\ \A e, f \in 1..Len(returnData) :
          e < f => returnData[e].pairedItem < returnData[f].pairedItem
    /\ \A c, d \in 1..Len(calls) : c < d => calls[c].item <= calls[d].item
    /\ \A c \in 1..Len(calls) : calls[c].item <= itemIndex
    /\ \A e \in 1..Len(returnData) : returnData[e].pairedItem < itemIndex

\* C21: the items are processed one at a time in input order: the output
\* entries of an earlier item precede those of a later one, no call of a
\* later item is made before the calls of an earlier one are over, and every
\* step works on the item in turn or moves to the next.
C21_InputOrder ==
    /\ []InInputOrder
    /\ [][/\ itemIndex' \in {itemIndex, itemIndex + 1}
          /\ Len(calls') > Len(calls) => calls'[Len(calls')].item = itemIndex
          /\ Len(returnData') > Len(returnData)
                => /\ returnData'[Len(returnData')].pairedItem = itemIndex
                   /\ itemIndex' = itemIndex + 1]_vars

\* Three items have gone through: the first failed and left an error entry,
\* the two after it made their calls and left their results.
C21_Witness ==
    /\ Len(batch) = 3
    /\ outcome.status = "returned"
    /\ Len(returnData) = 3
    /\ returnData[1].kind = "error" /\ returnData[3].kind = "json"
    /\ \E c, d \in 1..Len(calls) : calls[c].item = 2 /\ calls[d].item = 3

\* The value of the type attribute of a reference tag.
TypeAttribute(tag) ==
    LET marker == <<"t","y","p","e","=","\"">>
        start == Min({i \in 1..Len(tag) : HasAt(tag, i, marker)}) + Len(marker)
        stop == Min({j \in start..Len(tag) : tag[j] = "\""})
    IN Slice(tag, start, stop - 1)

\* The binary property names item i asks for.
NamesOf(i) == parseBinaryPropertyNames(batch[i].binaryPropertyNames)

\* C25: the builder keeps resources and reference tags as two sequences of
\* one length; the k-th of each belongs to the k-th requested property name:
\* the resource holds that property's bytes, the tag that resource's hash and
\* MIME type, which is the generic octet-stream type where the property
\* declares none; once the builder has returned there is one pair for each
\* requested name, and these are what is sent.
C25_PairedSequences ==
    /\ Len(frame.resources) = Len(frame.mediaTags)
    /\ Len(frame.resources) > 0 => Len(frame.resources) <= Len(NamesOf(itemIndex))
    /\ \A k \in 1..Len(frame.resources) :
          LET binaryData == batch[itemIndex].binary[NamesOf(itemIndex)[k]]
              r == frame.resources[k]
          IN /\ r.data.body = binaryData.data
             /\ r.mime = (IF binaryData.mimeType = <<>> THEN octetStream
                          ELSE binaryData.mimeType)
             /\ TypeAttribute(frame.mediaTags[k]) = r.mime
             /\ HashAttribute(frame.mediaTags[k]) = toHex(md5(binaryData.data))
    /\ frame.attached /\ pc \in {"getNote", "getNoteTagNames", "updateNote", "createNote"}
          => Len(frame.resources) = Len(NamesOf(itemIndex))
    /\ \A c \in SendCalls :
          "resources" \in DOMAIN calls[c].note =>
             /\ Len(calls[c].note.resources) = Len(NamesOf(calls[c].item))
             /\ EndsWith(BodyOf(calls[c].note.content), TagsOf(calls[c].note.resources))

\* Two resources were built and sent in the order of the names: the first
\* for a property without a declared type, the second for one with a type.
C25_Witness ==
    \E c \in SendCalls :
        /\ "resources" \in DOMAIN calls[c].note
        /\ NamesOf(calls[c].item) = <<docName, dataName>>
        /\ calls[c].note.resources[1].mime = octetStream
        /\ calls[c].note.resources[2].mime = <<"i","m","a","g","e","/","p","n","g">>
        /\ calls[c].note.resources[1].data.body # calls[c].note.resources[2].data.body

\* Item i has attachments enabled and lists a binary property it does not carry.
LacksBinary(i) ==
    /\ batch[i].operation \in {"create", "update"}
    /\ batch[i].addAttachments
    /\ \E k \in 1..Len(NamesOf(i)) : NamesOf(i)[k] \notin DOMAIN batch[i].binary

\* C26: with attachments enabled and a listed binary property absent from
\* the item, the item ends with the input error, no call to the service is
\* made for it, neither a fetch nor create-note nor update-note, and no
\* resource built before the absent one is kept.
C26_MissingBinary ==
    \A i \in 1..Len(batch) :
        LacksBinary(i) =>
            /\ \A c \in 1..Len(calls) : calls[c].item # i
            /\ itemIndex = i => pc \in {"item", "build", "done"}
            /\ Over(i) \/ pc = "done" =>
                  /\ ErrorOf(i) = "No binary data exists on item"
                  /\ frame.resources = <<>> /\ frame.mediaTags = <<>>

\* An update that asks for a property it carries and one it does not has
\* ended with the input error as its output entry, after one resource was
\* built and without a call.
C26_Witness ==
    /\ batch[1].operation = "update" /\ LacksBinary(1)
    /\ NamesOf(1)[1] \in DOMAIN batch[1].binary
    /\ outcome.status = "returned"
    /\ Len(returnData) = 1 /\ returnData[1].kind = "error"
    /\ calls = <<>>

RECURSIVE EscapedText(_)
\* A text with each XML metacharacter as its entity and each line break, a
\* line feed alone or after a carriage return, as one break element.
EscapedText(text) ==
    IF text = <<>> THEN <<>>
    ELSE IF Head(text) = "\r" /\ Len(text) >= 2 /\ text[2] = "\n"
    THEN <<"<","b","r"," ","/",">">> \o EscapedText(Tail(Tail(text)))
    ELSE (CASE Head(text) = "&" -> <<"&","a","m","p",";">>
            [] Head(text) = "<" -> <<"&","l","t",";">>
            [] Head(text) = ">" -> <<"&","g","t",";">>
            [] Head(text) = "\"" -> <<"&","q","u","o","t",";">>
            [] Head(text) = "\n" -> <<"<","b","r"," ","/",">">>
            [] OTHER -> <<Head(text)>>)
         \o EscapedText(Tail(text))

\* Every "<" and ">" of s belongs to a break element and every "&" starts an
\* entity.
OnlyMarkupStructure(s) ==
    \A k \in 1..Len(s) :
        /\ s[k] = "<" => HasAt(s, k, <<"<","b","r"," ","/",">">>)
        /\ s[k] = ">" => k >= 6 /\ HasAt(s, k - 5, <<"<","b","r"," ","/",">">>)
        /\ s[k] = "&" => \E entity \in { <<"&","a","m","p",";">>, <<"&","l","t",";">>,
                                         <<"&","g","t",";">>, <<"&","q","u","o","t",";">> } :
                            HasAt(s, k, entity)

\* The create-note and update-note calls whose body is the encoded plain text.
PlainTextCalls ==
    {c \in SendCalls :
        /\ batch[calls[c].item].contentMode = "plainText"
        /\ batch[calls[c].item].operation = "create"
           \/ batch[calls[c].item].contentEditingMode = "replace"}

WrappedBodies(item, existingNote) ==
    {BodyOf(doc) : doc \in ExtractedDocuments(item, existingNote)
                           \ (IF item.operation = "update" /\ needsExistingContent(item)
                              THEN {existingNote.content} ELSE {})}

\* No substring of body matches the pattern of the root element.
NoRootElement(body) == \A k \in 1..Len(body) : ~RootMatchAt(body, k).ok

\* The note the handler of the item of call c worked on: what getNote gave an
\* update, nothing for a create.
ExistingAt(c) ==
    IF batch[calls[c].item].operation = "update" THEN ExistingFor(calls[c].item) ELSE NoNote

\* C22: extractEnmlBody(wrapEnmlBody(body)) is body for every body without a
\* substring that matches the root-element pattern, among them the bodies
\* the handlers wrap and unwrap again.
C22_RoundTrip ==
    \A c \in SendCalls :
        \A body \in WrappedBodies(batch[calls[c].item], ExistingAt(c)) :
            NoRootElement(body) => extractEnmlBody(wrapEnmlBody(body)) = body

\* C23: extractEnmlBody returns all that lies between the opening tag of the
\* root element, with attributes or without, and the closing tag that ends
\* the Document; tags inside the body that look like the root element's do
\* not end the extracted body early.
C23_WholeBody ==
    \A c \in SendCalls :
        \A doc \in ExtractedDocuments(batch[calls[c].item], ExistingAt(c)) :
            IsDocument(doc) => extractEnmlBody(doc) = BodyOf(doc)

RECURSIVE Copies(_, _)
\* n copies of s, one after the other.
Copies(s, n) == IF n = 0 THEN <<>> ELSE s \o Copies(s, n - 1)

\* The batch asks for one and the same append, without attachments, in each
\* of its items.
SameAppends ==
    \A i \in 1..Len(batch) :
        /\ batch[i] = batch[1]
        /\ batch[i].operation = "update" /\ batch[i].contentEditingMode = "append"
        /\ ~batch[i].addAttachments /\ batch[i].faults = {}

\* C27: after n appends of the same encoded fragment to a note, each applied
\* by the service, the note's body is the body it had at first followed by n
\* copies of the fragment.
C27_RepeatedAppend ==
    SameAppends /\ UpdateCalls # {} =>
        BodyOf(noteStore.content)
           = BodyOf(ExistingFor(1).content)
             \o Copies(BodyOf(EncodeInput(batch[1])), Cardinality(UpdateCalls))

====
